---- MODULE Spec2Model ----
(***************************************************************************)
(* Model of the PolM one-click trading bot (src/src/*.py).                 *)
(*                                                                         *)
(*   SpecLive     one candidate, one instant: GammaAPI._is_candidate_live_now*)
(*                and GammaAPI._parse_candidate_datetime.                  *)
(*   SpecPrimary  one call of GammaAPI.discover_15m_event_via_events_api   *)
(*                against a paginated listing.                             *)
(*   SpecDiscover one call of GammaAPI.discover_15m_market against a       *)
(*                listing and an aggregator page.                          *)
(*   SpecLedger   StakeManager and State under any sequence of results.    *)
(*   SpecCanTrade one StakeManager.can_trade call on a stored ledger.       *)
(*   SpecDecision one Strategy.make_decision call on given arguments.      *)
(*   Spec         PolymrketBot.run: start-up discovery, the run loop, the  *)
(*                watch-mode re-discovery and the trading cycle, step by   *)
(*                step, with the shutdown signal and the clock interleaved.*)
(*   SpecWatch    the watch-mode runs of Spec, the orchestrator's steps    *)
(*                weakly fair.                                             *)
(*   SpecCandles  CandleBuilder under any sequence of ticks.               *)
(*   SpecPaging   one primary discovery call with given max_candidates and *)
(*                max_pages.                                               *)
(*   SpecFeed     RTDSClient._connect, the reconnect loop of the price     *)
(*                feed, with stop() interleaved.                           *)
(*   SpecTeardown the runs of Spec in both modes, the orchestrator's steps *)
(*                weakly fair.                                             *)
(*   SpecParse    the head of a trading cycle: the market information read *)
(*                from the page, the manual fallback, the cross-validation.*)
(*   SpecHandle   RTDSClient._handle_message on any message.               *)
(*   SpecQueue    the feed thread's put interleaved with the orchestrator's*)
(*                drain of the queue into the candle builder.              *)
(*                                                                         *)
(* Strings are modelled as sequences of tokens (a token is a run of        *)
(* characters that the code never splits), so startswith, the `in`         *)
(* substring test and str.replace are computed, not assumed.               *)
(* Instants are integer seconds since the epoch.                           *)
(***************************************************************************)
EXTENDS Integers, Sequences, FiniteSets, TLC

VARIABLES
    candidate,      \* SpecLive: the candidate dictionary under test
    now,            \* the evaluation instant (datetime.now(timezone.utc))
    liveness,       \* SpecLive: result of _is_candidate_live_now, or Pending
    api_pages,      \* upstream /events listing: the response to each page request
    primary,        \* SpecPrimary: outcome of the primary discovery call
    ui_page,        \* the aggregator page /crypto/15m as the browser renders it
    discovery,      \* SpecDiscover: outcome of the discover_15m_market call
    pc,                     \* Spec: the orchestrator's position in run()
    running,                \* PolymrketBot.running
    watch_mode,             \* PolymrketBot.watch_mode
    current_slug,           \* PolymrketBot.current_slug (NullSlug: None)
    current_market_url,     \* PolymrketBot.current_market_url (NullSlug: None)
    current_market_details, \* slug the stored Gamma details were fetched for
    browser,                \* OneClickUI.browser is started
    page_url,               \* address the browser page is on (<<>>: blank)
    feed,                   \* RTDSClient is started
    navigations,            \* addresses passed to OneClickUI.navigate_to_market
    iteration,              \* iterations of the run loop begun
    calls,                  \* steps of the current iteration's trading cycle
    rediscovery,            \* the current iteration's _check_for_new_market call
    discover_calls,         \* the last two discover_15m_market calls
    seconds_left,           \* _trading_cycle's local of that name
    current_price,          \* _trading_cycle's local of that name
    price_to_beat,          \* _trading_cycle's local of that name
    indicators,             \* _trading_cycle's local of that name
    decision_result,        \* _trading_cycle's local of that name
    state,                  \* State.state, the ledger in memory
    persisted,              \* the contents of state.json
    pending,                \* the update_after_result call in progress
    results,                \* results recorded since the statistics were reset
    verdict,                \* what the last can_trade call returned
    candles,                \* CandleBuilder.candles, the completed history
    current_candle,         \* CandleBuilder.current_candle (None before a tick)
    ticks,                  \* the ticks passed to add_tick so far
    paging,                 \* SpecPaging: max_candidates, max_pages of the call
    feed_pc,                \* SpecFeed: RTDSClient._connect's position
    rtds_running,           \* RTDSClient.running
    retry_count,            \* _connect's local of that name
    wait_time,              \* _connect's local of that name (0: unbound)
    close_requested,        \* stop() scheduled self._ws.close()
    failures,               \* WebSocket errors since the last connection
    connections,            \* connections established so far
    market_page,            \* SpecParse: what the market page shows
    price_queue,            \* RTDSClient.price_queue
    prices,                 \* the list get_all_prices builds and returns
    drain_pc,               \* the orchestrator's position in _update_candles
    enqueued,               \* every tick put on price_queue so far
    handled                 \* messages passed to _handle_message so far

liveVars == <<candidate, liveness>>
primaryVars == <<primary>>
discoverVars == <<ui_page, discovery>>
botVars == <<running, watch_mode, current_slug, current_market_url,
             current_market_details>>
sessionVars == <<browser, page_url, feed, navigations>>
cycleLocals == <<seconds_left, current_price, price_to_beat, indicators,
                 decision_result>>
cycleVars == <<iteration, calls, rediscovery, cycleLocals>>
runVars == <<pc, botVars, sessionVars, cycleVars, discover_calls>>
ledgerVars == <<state, persisted, pending, results, verdict>>
candleVars == <<candles, current_candle, ticks>>
feedVars == <<feed_pc, rtds_running, retry_count, wait_time, close_requested,
              failures, connections>>
queueVars == <<price_queue, prices, drain_pc, enqueued, handled>>
auxVars == <<candleVars, paging, feedVars, market_page, queueVars>>
vars == <<candidate, now, liveness, api_pages, primary, ui_page, discovery,
          runVars, ledgerVars, auxVars>>

----------------------------------------------------------------------------
(* Bounds *)

\* number of 15-minute grid points used for start/end values
MaxSlot == 2
\* SpecPrimary: events the listing holds, and events the endpoint puts on a page
MaxListingEvents == 3
MaxPageEvents == 2
\* SpecDiscover: pages the listing holds
MaxListingPages == 2
\* SpecDiscover: event links on the aggregator page
MaxLinks == 2

----------------------------------------------------------------------------
(* Time values as they appear in listing payloads *)

\* gamma.py:251  `if duration >= 86400`
DaySeconds == 86400

TimePoints == {k * 900 : k \in 0..MaxSlot} \cup {DaySeconds, DaySeconds + 900}

\* instants at which discovery may be evaluated: grid points and mid points
NowPoints == {k * 450 : k \in 0..(2 * MaxSlot + 1)} \cup {DaySeconds + 450}

\* UTC offsets carried by ISO strings ("Z"/"+00:00" and "+01:00")
Offsets == {0, 3600}

\* A raw JSON value found under a start/end key.
\*   none      key absent or JSON null
\*   iso       string with 'T' and a zone marker; t is the local wall time
\*   isonaive  string with 'T' and no zone marker
\*   numstr    numeric string (Unix epoch)
\*   num       JSON number (Unix epoch)
\*   text      non-empty string that is neither ISO nor numeric
\*   empty     the empty string
\*   huge      number outside the range datetime.fromtimestamp accepts
RawTime(k, t, o) == [kind |-> k, t |-> t, off |-> o]

RawNone == RawTime("none", 0, 0)

RawTimes ==
    {RawTime("iso", t, o) : t \in TimePoints, o \in Offsets}
    \cup {RawTime(k, t, 0) : k \in {"isonaive", "numstr", "num"}, t \in TimePoints}
    \cup {RawTime(k, 0, 0) : k \in {"none", "text", "empty", "huge"}}

\* Python truthiness of a raw value (used by `a or b` in the extraction)
Truthy(v) ==
    CASE v.kind = "none"  -> FALSE
      [] v.kind = "empty" -> FALSE
      [] v.kind = "num"   -> v.t # 0
      [] OTHER            -> TRUE

\* Optional[datetime]
NoneDt == [ok |-> FALSE, t |-> 0]
SomeDt(t) == [ok |-> TRUE, t |-> t]

\* GammaAPI._parse_candidate_datetime(candidate, time_type)
_parse_candidate_datetime_failopen(cand, time_type) ==
    LET time_val == cand[time_type] IN
    CASE time_val.kind = "none"     -> SomeDt(0)
      [] time_val.kind = "iso"      -> SomeDt(time_val.t - time_val.off)
      [] time_val.kind = "isonaive" -> SomeDt(time_val.t)
      [] time_val.kind = "numstr"   -> SomeDt(time_val.t)
      [] time_val.kind = "num"      -> SomeDt(time_val.t)
      [] OTHER                      -> SomeDt(0)

_parse_candidate_datetime(cand, time_type) ==
    LET time_val == cand[time_type] IN
    CASE time_val.kind = "none"     -> NoneDt                 \* line 284
      [] time_val.kind = "iso"      -> SomeDt(time_val.t - time_val.off)  \* 293
      [] time_val.kind = "isonaive" -> SomeDt(time_val.t)     \* 295-297
      [] time_val.kind = "numstr"   -> SomeDt(time_val.t)     \* 303-304
      [] time_val.kind = "num"      -> SomeDt(time_val.t)     \* 310
      [] time_val.kind = "huge"     -> NoneDt                 \* 310 raises, 314
      [] OTHER                      -> NoneDt                 \* 305-306, 312

LiveResult(b, s) == [is_live |-> b, status |-> s]

\* GammaAPI._is_candidate_live_now(candidate, now)
_is_candidate_live_now_inclusive(cand, at) ==
    LET start_dt == _parse_candidate_datetime(cand, "start")
        end_dt   == _parse_candidate_datetime(cand, "end")
    IN  IF ~start_dt.ok \/ ~end_dt.ok
        THEN LiveResult(FALSE, "unknown_time")
        ELSE IF end_dt.t - start_dt.t > DaySeconds
        THEN LiveResult(FALSE, "unknown_time")
        ELSE IF start_dt.t <= at /\ at <= end_dt.t
        THEN LiveResult(TRUE, "live")
        ELSE IF at < start_dt.t
        THEN LiveResult(FALSE, "future")
        ELSE LiveResult(FALSE, "past")

_is_candidate_live_now(cand, at) ==
    LET start_dt == _parse_candidate_datetime(cand, "start")
        end_dt   == _parse_candidate_datetime(cand, "end")
    IN  IF ~start_dt.ok \/ ~end_dt.ok
        THEN LiveResult(FALSE, "unknown_time")
        ELSE IF end_dt.t - start_dt.t >= DaySeconds
        THEN LiveResult(FALSE, "unknown_time")
        ELSE IF start_dt.t <= at /\ at < end_dt.t
        THEN LiveResult(TRUE, "live")
        ELSE IF at < start_dt.t
        THEN LiveResult(FALSE, "future")
        ELSE LiveResult(FALSE, "past")

----------------------------------------------------------------------------
(* Strings as token sequences *)

\* str.startswith(prefix)
StartsWith(s, prefix) ==
    /\ Len(prefix) <= Len(s)
    /\ SubSeq(s, 1, Len(prefix)) = prefix

\* `sub in s`
Contains(s, sub) ==
    \E i \in 1..(Len(s) - Len(sub) + 1) : SubSeq(s, i, i + Len(sub) - 1) = sub

\* JSON null where a string is expected
NullSlug == <<"\\null">>

\* config assets.<asset>.slug_prefix, e.g. "btc-updown-15m-"
SlugPrefix(asset) == <<asset, "-updown-15m-">>

Slug(asset, round) == SlugPrefix(asset) \o <<round>>

----------------------------------------------------------------------------
(* Listing payloads *)

Candidate(slug, s, e, src) ==
    [slug |-> slug, start |-> s, end |-> e, source_type |-> src]

Market(slug, s, e) == [slug |-> slug, startDate |-> s, endDate |-> e]

Event(slug, sd, ed, sts, ets, markets, tickers) ==
    [slug |-> slug, startDate |-> sd, endDate |-> ed,
     startTimestamp |-> sts, endTimestamp |-> ets,
     markets |-> markets, tickers |-> tickers]

\* a response of the listing endpoint to one page request
\*   ok     HTTP 200 with a JSON array of events
\*   error  transport failure or HTTP error status (requests.RequestException)
OkPage(events) == [kind |-> "ok", events |-> events]
ErrorPage == [kind |-> "error", events |-> <<>>]

\* Python `a or b`
PyOr(a, b) == IF Truthy(a) THEN a ELSE b

Raised == [raised |-> TRUE, value |-> <<>>]
Returned(v) == [raised |-> FALSE, value |-> v]

\* gamma.py:171-183  candidate from the event itself
EventCandidates(event, slug_prefix) ==
    IF StartsWith(event.slug, slug_prefix)
    THEN <<Candidate(event.slug,
                     PyOr(event.startDate, event.startTimestamp),
                     PyOr(event.endDate, event.endTimestamp),
                     "event")>>
    ELSE <<>>

\* gamma.py:185-200  candidates from the markets nested in the event
RECURSIVE MarketCandidates(_, _, _)
MarketCandidates(event, markets, slug_prefix) ==
    IF markets = <<>> THEN <<>>
    ELSE LET market == Head(markets) IN
         (IF StartsWith(market.slug, slug_prefix)
          THEN <<Candidate(market.slug,
                           PyOr(market.startDate, event.startDate),
                           PyOr(market.endDate, event.endDate),
                           "market")>>
          ELSE <<>>)
         \o MarketCandidates(event, Tail(markets), slug_prefix)

\* gamma.py:202-216  candidates from the tickers array
RECURSIVE TickerCandidates(_, _, _)
TickerCandidates(event, tickers, slug_prefix) ==
    IF tickers = <<>> THEN <<>>
    ELSE LET ticker == Head(tickers) IN
         (IF StartsWith(ticker, slug_prefix)
          THEN <<Candidate(ticker, event.startDate, event.endDate, "ticker")>>
          ELSE <<>>)
         \o TickerCandidates(event, Tail(tickers), slug_prefix)

\* GammaAPI._extract_candidates_from_events(events, slug_prefix)
\* raises AttributeError when an event's slug is JSON null (None.startswith)
RECURSIVE _extract_candidates_from_events(_, _)
_extract_candidates_from_events(events, slug_prefix) ==
    IF events = <<>> THEN Returned(<<>>)
    ELSE LET event == Head(events) IN
         IF event.slug = NullSlug THEN Raised
         ELSE LET rest == _extract_candidates_from_events(Tail(events), slug_prefix)
              IN  IF rest.raised THEN Raised
                  ELSE Returned(EventCandidates(event, slug_prefix)
                                \o MarketCandidates(event, event.markets, slug_prefix)
                                \o TickerCandidates(event, event.tickers, slug_prefix)
                                \o rest.value)

\* gamma.py:51  limit = 200
Limit == 200

\* the response to the request at `offset`: the listing is served `limit`
\* events at a time; past its end the endpoint answers with an empty array
Response(pages, offset) ==
    IF offset \div Limit + 1 <= Len(pages)
    THEN pages[offset \div Limit + 1]
    ELSE OkPage(<<>>)

\* the pagination loop left by an exception after the requests `offsets`
RaisedAfter(offsets) ==
    [raised |-> TRUE,
     value |-> [cands |-> <<>>, fetched |-> Len(offsets), offsets |-> offsets]]

enough_candidates_exclusive(all_candidates, max_candidates) ==
    Len(all_candidates) > max_candidates

\* gamma.py:87  if len(all_candidates) >= max_candidates
enough_candidates(all_candidates, max_candidates) ==
    Len(all_candidates) >= max_candidates

\* gamma.py:50-92  the pagination loop; page is the number of requests made
\* so far, offset the offset of the next request, offsets the offsets
\* requested so far. Yields the candidates collected and the requests made.
RECURSIVE Paginate(_, _, _, _, _, _, _, _)
Paginate(pages, slug_prefix, max_candidates, max_pages, page, offset, all_candidates, offsets) ==
    IF ~(page < max_pages)                                           \* line 55
    THEN Returned([cands |-> all_candidates, fetched |-> page, offsets |-> offsets])
    ELSE LET response == Response(pages, offset)
             requested == Append(offsets, offset)
         IN
         IF response.kind = "error" THEN RaisedAfter(requested)      \* line 71
         ELSE IF response.events = <<>>                              \* line 76
         THEN Returned([cands |-> all_candidates, fetched |-> page + 1,
                        offsets |-> requested])
         ELSE LET page_candidates ==
                      _extract_candidates_from_events(response.events, slug_prefix)
              IN  IF page_candidates.raised THEN RaisedAfter(requested)
                  ELSE LET extended == all_candidates \o page_candidates.value IN
                       IF enough_candidates(extended, max_candidates) \* line 87
                       THEN Returned([cands |-> extended, fetched |-> page + 1,
                                      offsets |-> requested])
                       ELSE Paginate(pages, slug_prefix, max_candidates,
                                     max_pages, page + 1, offset + Limit, \* line 92
                                     extended, requested)

\* gamma.py:107-117  the candidates classified live, in listing order
LiveMarkets(all_candidates, at) ==
    SelectSeq(all_candidates, LAMBDA c : _is_candidate_live_now(c, at).is_live)

\* key=sort_key of _select_best_live_market: the parsed end, datetime.max
\* when it does not parse
\* (datetime.max is later than every instant of the model; the value is the
\* largest integer the checker represents)
DatetimeMax == 2147483647
sort_key(cand) ==
    LET end_dt == _parse_candidate_datetime(cand, "end")
    IN  IF ~end_dt.ok THEN DatetimeMax ELSE end_dt.t

\* GammaAPI._select_best_live_market(live_markets, now): sorted() is stable,
\* so element 0 is the first candidate in list order with the minimum key
_select_best_live_market_first(live_markets) ==
    IF live_markets = <<>> THEN <<>> ELSE <<Head(live_markets)>>

_select_best_live_market(live_markets) ==
    IF live_markets = <<>> THEN <<>>
    ELSE LET i == CHOOSE i \in 1..Len(live_markets) :
                      /\ \A j \in 1..Len(live_markets) :
                            sort_key(live_markets[i]) <= sort_key(live_markets[j])
                      /\ \A j \in 1..(i - 1) :
                            sort_key(live_markets[j]) > sort_key(live_markets[i])
         IN  <<live_markets[i]>>

\* defaults of discover_15m_event_via_events_api (gamma.py:30-31)
DefaultMaxCandidates == 10
DefaultMaxPages == 5

\* GammaAPI.discover_15m_event_via_events_api(slug_prefix, max_candidates,
\* max_pages) evaluated against the listing `pages` at instant `at`.
\* selected is <<>> for None, <<candidate>> otherwise; raised: an exception
\* was raised and caught (lines 146-152); escaped: one reached the caller.
discover_15m_event_via_events_api(pages, slug_prefix, max_candidates, max_pages, at) ==
    LET fetched == Paginate(pages, slug_prefix, max_candidates, max_pages,
                            0, 0, <<>>, <<>>) IN
    IF fetched.raised                                            \* lines 146-152
    THEN [selected |-> <<>>, raised |-> TRUE, escaped |-> FALSE,
          all_candidates |-> <<>>, live_markets |-> <<>>,
          offsets |-> fetched.value.offsets]
    ELSE LET all_candidates == fetched.value.cands
             live_markets == LiveMarkets(all_candidates, at)
         IN  [selected |-> IF all_candidates = <<>> THEN <<>>    \* line 96
                           ELSE _select_best_live_market(live_markets),
              raised |-> FALSE, escaped |-> FALSE,
              all_candidates |-> all_candidates,
              live_markets |-> live_markets,
              offsets |-> fetched.value.offsets]

----------------------------------------------------------------------------
(* UI fallback and the two-level discovery *)

\* config api.polymarket_base_url
BaseUrl == <<"https://polymarket.com">>

\* GammaAPI.get_market_url(slug, base_url): f"{base_url}/event/{slug}"
get_market_url(slug, base_url) == base_url \o <<"/", "event/">> \o slug

\* f"{base_url}/crypto/15m"
Crypto15mUrl(base_url) == base_url \o <<"/", "crypto/15m">>

\* an <a href*="/event/"> element of the aggregator page.
\*   href    the attribute value; NullSlug when the attribute is absent
\*   text    the lower-cased text content
\*   raises  "href": get_attribute raises; "text": text_content raises
Link(href, text, raises) == [href |-> href, text |-> text, raises |-> raises]

\* gamma.py:668-673  search_terms, lower-cased
SearchTerm(asset) ==
    CASE asset = "btc" -> <<"bitcoin up or down">>
      [] asset = "eth" -> <<"ethereum up or down">>
      [] OTHER         -> <<asset, " up or down">>

\* gamma.py:674
TimeIndicator == <<"15 minute">>

\* gamma.py:706-716  does this link identify the asset's round?
LinkMatches(link, asset) ==
    /\ Contains(link.text, SearchTerm(asset))
    /\ Contains(link.text, TimeIndicator)
    /\ Contains(link.href, <<asset, "-updown-15m-">>)

\* gamma.py:689-721  the scan over the links: the href of the first link that
\* matches, and the number of exceptions caught on the way to it
RECURSIVE ScanLinks(_, _, _)
ScanLinks(links, asset, caught) ==
    IF links = <<>> THEN [event_href |-> <<>>, caught |-> caught]
    ELSE LET link == Head(links) IN
         IF link.raises = "href"                          \* lines 720-721
         THEN ScanLinks(Tail(links), asset, caught + 1)
         ELSE IF link.href = NullSlug \/ link.href = <<>>  \* lines 694-695
         THEN ScanLinks(Tail(links), asset, caught)
         ELSE IF link.raises = "text"                     \* lines 717-718
         THEN ScanLinks(Tail(links), asset, caught + 1)
         ELSE IF LinkMatches(link, asset)
         THEN [event_href |-> <<link.href>>, caught |-> caught]
         ELSE ScanLinks(Tail(links), asset, caught)

\* gamma.py:734-738  slug of an href
SlugOfHref(event_href) ==
    LET stripped == IF event_href # <<>> /\ Head(event_href) = "/"
                    THEN Tail(event_href) ELSE event_href
    IN  SelectSeq(stripped, LAMBDA tok : tok # "event/")

\* asset.upper()
Upper(asset) ==
    CASE asset = "btc" -> "BTC"
      [] asset = "eth" -> "ETH"
      [] OTHER         -> asset

ResolvedMarket(slug, url, asset, source) ==
    [slug |-> slug, url |-> url, asset |-> Upper(asset), source |-> source]

\* result of one discovery level: the market found (<<>> for None), whether
\* an exception left the level, the exceptions caught inside it, and the
\* address the browser page is left on (<<>>: the page was not navigated)
LevelResult(found, escaped, caught, goto) ==
    [found |-> found, escaped |-> escaped, caught |-> caught, goto |-> goto]

\* try: <body> except Exception: return None
CatchAll(r) ==
    IF r.escaped THEN LevelResult(<<>>, FALSE, r.caught + 1, r.goto) ELSE r

\* body of discover_15m_event_via_ui (gamma.py:652-761)
UiBody(asset, ui, base_url) ==
    IF ui.goto_raises                                           \* line 658
    THEN LevelResult(<<>>, TRUE, 0, <<>>)
    ELSE LET scan == ScanLinks(ui.links, asset, 0) IN
         IF scan.event_href = <<>>                              \* line 723
         THEN LevelResult(<<>>, FALSE, scan.caught, Crypto15mUrl(base_url))
         ELSE LET slug == SlugOfHref(scan.event_href[1]) IN
              LevelResult(<<ResolvedMarket(slug,
                                           base_url \o <<"/", "event/">> \o slug,
                                           asset, "UI_FALLBACK")>>,
                          FALSE, scan.caught, Crypto15mUrl(base_url))

\* GammaAPI.discover_15m_event_via_ui(asset, page, base_url)
discover_15m_event_via_ui_uncaught(asset, ui, base_url) == UiBody(asset, ui, base_url)

discover_15m_event_via_ui(asset, ui, base_url) == CatchAll(UiBody(asset, ui, base_url))

\* the primary level as seen by discover_15m_market (gamma.py:973)
PrimaryLevel(pages, slug_prefix, at) ==
    LET r == discover_15m_event_via_events_api(
                 pages, slug_prefix, DefaultMaxCandidates, DefaultMaxPages, at)
    IN  LevelResult(r.selected, r.escaped, IF r.raised THEN 1 ELSE 0, <<>>)

\* the page argument of discover_15m_market when no browser page is passed
NoPage == [goto_raises |-> FALSE, links |-> <<>>, given |-> FALSE]

UiPage(goto_raises, links) ==
    [goto_raises |-> goto_raises, links |-> links, given |-> TRUE]

\* GammaAPI.discover_15m_market(asset, slug_prefix, page, base_url) evaluated
\* against the listing `pages` at instant `at`.
\*   result   <<>> for None, <<market>> otherwise
\*   levels   the discovery levels invoked, in order
\*   escaped  an exception reached the caller
\*   caught   exceptions caught inside the UI level
\*   goto     where the call leaves the browser page (<<>>: untouched)
discover_15m_market_ui_first(asset, slug_prefix, page, base_url, pages, at) ==
    LET ui_event_info == discover_15m_event_via_ui(asset, page, base_url) IN
    IF page.given /\ ui_event_info.found # <<>>
    THEN [result |-> ui_event_info.found, levels |-> <<"UI_FALLBACK">>,
          escaped |-> FALSE, caught |-> ui_event_info.caught,
          goto |-> ui_event_info.goto]
    ELSE LET event_info == PrimaryLevel(pages, slug_prefix, at) IN
         [result |-> IF event_info.found = <<>> THEN <<>>
                     ELSE <<ResolvedMarket(event_info.found[1].slug,
                                get_market_url(event_info.found[1].slug, base_url),
                                asset, "EVENTS_PRIMARY")>>,
          levels |-> IF page.given THEN <<"UI_FALLBACK", "EVENTS_PRIMARY">>
                     ELSE <<"EVENTS_PRIMARY">>,
          escaped |-> FALSE,
          caught |-> IF page.given THEN ui_event_info.caught ELSE 0,
          goto |-> IF page.given THEN ui_event_info.goto ELSE <<>>]

\* a discover_15m_market call that leaves out the market already held
discover_15m_market_excluding_current(asset, slug_prefix, page, base_url, pages, at) ==
    LET event_info == PrimaryLevel(pages, slug_prefix, at)
        fresh == event_info.found # <<>>
                 /\ event_info.found[1].slug # current_slug
    IN
    IF fresh
    THEN LET slug == event_info.found[1].slug IN
         [result |-> <<ResolvedMarket(slug, get_market_url(slug, base_url),
                                      asset, "EVENTS_PRIMARY")>>,
          levels |-> <<"EVENTS_PRIMARY">>,
          escaped |-> FALSE, caught |-> 0, goto |-> <<>>]
    ELSE IF ~page.given
    THEN [result |-> <<>>, levels |-> <<"EVENTS_PRIMARY">>,
          escaped |-> FALSE, caught |-> 0, goto |-> <<>>]
    ELSE LET ui_event_info == discover_15m_event_via_ui(asset, page, base_url) IN
         [result |-> ui_event_info.found,
          levels |-> <<"EVENTS_PRIMARY", "UI_FALLBACK">>,
          escaped |-> ui_event_info.escaped,
          caught |-> ui_event_info.caught,
          goto |-> ui_event_info.goto]

discover_15m_market(asset, slug_prefix, page, base_url, pages, at) ==
    LET event_info == PrimaryLevel(pages, slug_prefix, at) IN
    IF event_info.escaped
    THEN [result |-> <<>>, levels |-> <<"EVENTS_PRIMARY">>,
          escaped |-> TRUE, caught |-> 0, goto |-> <<>>]
    ELSE IF event_info.found # <<>>                              \* line 975
    THEN LET slug == event_info.found[1].slug IN
         [result |-> <<ResolvedMarket(slug, get_market_url(slug, base_url),
                                      asset, "EVENTS_PRIMARY")>>,
          levels |-> <<"EVENTS_PRIMARY">>,
          escaped |-> FALSE, caught |-> 0, goto |-> <<>>]
    ELSE IF ~page.given                                          \* line 1003
    THEN [result |-> <<>>, levels |-> <<"EVENTS_PRIMARY">>,
          escaped |-> FALSE, caught |-> 0, goto |-> <<>>]
    ELSE LET ui_event_info == discover_15m_event_via_ui(asset, page, base_url) IN
         [result |-> ui_event_info.found,                        \* 1012-1020
          levels |-> <<"EVENTS_PRIMARY", "UI_FALLBACK">>,
          escaped |-> ui_event_info.escaped,
          caught |-> ui_event_info.caught,
          goto |-> ui_event_info.goto]

----------------------------------------------------------------------------
(* Inputs of the discovery specifications *)

Iso(t) == RawTime("iso", t, 0)
Num(t) == RawTime("num", t, 0)

SimpleEvent(slug, sd, ed) == Event(slug, sd, ed, RawNone, RawNone, <<>>, <<>>)

\* rounds of the asset: [0, 900) twice (a tie on the end), [900, 1800) and
\* [0, 2700)
RoundEvents ==
    {SimpleEvent(Slug("btc", "r1"), Iso(0), Num(900)),
     SimpleEvent(Slug("btc", "r2"), Iso(0), Iso(900)),
     SimpleEvent(Slug("btc", "r3"), Num(900), Iso(1800)),
     SimpleEvent(Slug("btc", "r4"), Iso(0), Iso(2700))}

\* a round of another asset, live in [0, 1800)
OtherAssetEvent == SimpleEvent(Slug("eth", "r1"), Iso(0), Iso(1800))

\* rounds whose times do not resolve
UnresolvedEvents ==
    {Event(Slug("btc", "r5"), RawTime("empty", 0, 0), RawNone,
           RawTime("huge", 0, 0), RawNone, <<>>, <<>>),
     SimpleEvent(Slug("btc", "r6"), RawTime("text", 0, 0), Iso(1800))}

\* a series-level event spanning a day, with a nested round and a ticker
SeriesEvent ==
    Event(<<"btc-up-or-down-15m">>, Iso(0), Iso(DaySeconds), RawNone, RawNone,
          <<Market(Slug("btc", "r7"), RawNone, Num(1800))>>,
          <<Slug("btc", "r8")>>)

\* an event whose slug is JSON null
NullSlugEvent == SimpleEvent(NullSlug, Iso(0), Iso(900))

ListingEvents ==
    RoundEvents \cup UnresolvedEvents \cup {OtherAssetEvent, SeriesEvent, NullSlugEvent}

BoundedSeq(S, n) == UNION {[1..k -> S] : k \in 0..n}

\* the listing `events` as the endpoint serves it: `fill` events per page,
\* the err-th request failing (err = 0: none fails)
RECURSIVE Chunks(_, _)
Chunks(events, fill) ==
    IF Len(events) <= fill
    THEN (IF events = <<>> THEN <<>> ELSE <<OkPage(events)>>)
    ELSE <<OkPage(SubSeq(events, 1, fill))>>
         \o Chunks(SubSeq(events, fill + 1, Len(events)), fill)

ServedPages(events, fill, err) ==
    LET chunks == Chunks(events, fill) IN
    IF err = 0 THEN chunks
    ELSE IF err <= Len(chunks) THEN [chunks EXCEPT ![err] = ErrorPage]
    ELSE chunks \o <<ErrorPage>>

Listings ==
    {ServedPages(events, fill, err) :
        events \in BoundedSeq(ListingEvents, MaxListingEvents),
        fill \in 1..MaxPageEvents,
        err \in 0..2}

PrimaryNows == {450, 1350, 1800}

\* SpecDiscover: listings of at most one event per page
DiscoverEvents ==
    {SimpleEvent(Slug("btc", "r1"), Iso(0), Num(900)),
     SimpleEvent(Slug("btc", "r3"), Num(900), Iso(1800)),
     NullSlugEvent}

DiscoverPages ==
    {ErrorPage} \cup {OkPage(es) : es \in BoundedSeq(DiscoverEvents, 1)}

Href(path) == <<"/", "event/">> \o path

CardText(asset) == SearchTerm(asset) \o <<" - ">> \o TimeIndicator

\* the links an aggregator page may carry
Links ==
    {Link(Href(Slug("btc", "r1")), CardText("btc"), "none"),
     Link(BaseUrl \o Href(Slug("btc", "r2")), CardText("btc"), "none"),
     Link(Href(<<"bitcoin-up-or-down", "/">> \o Slug("btc", "r3")),
          CardText("btc"), "none"),
     Link(Href(Slug("eth", "r1")), CardText("eth"), "none"),
     Link(Href(Slug("btc", "r4")), SearchTerm("btc") \o <<" - ", "hourly">>, "none"),
     Link(NullSlug, CardText("btc"), "none"),
     Link(Href(Slug("btc", "r5")), CardText("btc"), "href"),
     Link(Href(Slug("btc", "r6")), CardText("btc"), "text")}

UiPages ==
    {UiPage(TRUE, <<>>)} \cup {UiPage(FALSE, ls) : ls \in BoundedSeq(Links, MaxLinks)}

NotDiscovered ==
    [called |-> FALSE, page_given |-> FALSE, result |-> <<>>, levels |-> <<>>,
     escaped |-> FALSE, caught |-> 0, goto |-> <<>>]

NotCalled ==
    [done |-> FALSE, selected |-> <<>>, raised |-> FALSE, escaped |-> FALSE,
     all_candidates |-> <<>>, live_markets |-> <<>>, offsets |-> <<>>]

\* the value of `candidate` where no candidate is under test
Pending == LiveResult(FALSE, "pending")

NoCandidate == Candidate(<<>>, RawNone, RawNone, "event")

----------------------------------------------------------------------------
(* The strategy: Strategy.make_decision (strategy.py) over the indicators   *)
(* of TechnicalAnalysis.get_indicators (ta.py)                              *)

\* strategy.py:16  gap_atr_threshold, 0.8 as the fraction 4/5
GapAtrThreshold == [num |-> 4, den |-> 5]

\* strategy.py:17  time_pressure_seconds
TimePressureSeconds == 600

\* an indicator value: None, a float that is NaN, or a float that is a number
None == [kind |-> "none", v |-> 0]

NaN == [kind |-> "nan", v |-> 0]

Float(n) == [kind |-> "num", v |-> n]

\* dict.get(key, default)
DictGet(d, key, default) == IF key \in DOMAIN d THEN d[key] ELSE default

\* x < y on floats: false when an operand is NaN
Less(x, y) == x.kind = "num" /\ y.kind = "num" /\ x.v < y.v

\* the truth value of an indicator: None and 0.0 are false, NaN is true
TruthyFloat(x) == x.kind = "nan" \/ (x.kind = "num" /\ x.v # 0)

Abs(n) == IF n < 0 THEN -n ELSE n

\* ta.py:89-95  the indicators of an empty candle frame
EmptyIndicators ==
    [ema_fast |-> None, ema_slow |-> None, atr |-> None, returns |-> <<>>]

\* ta.py:111-117  the indicators of a frame with candles
Indicators(ema_fast, ema_slow, atr, returns, close) ==
    [ema_fast |-> ema_fast, ema_slow |-> ema_slow, atr |-> atr,
     returns |-> returns, close |-> close]

\* strategy.py:47-48, 54  abs(gap_atr) > gap_atr_threshold, gap_atr being
\* gap / atr if atr and atr > 0 else 0.  For whole gap and atr the float
\* quotient exceeds the float 0.8 exactly when 5 |gap| > 4 atr.
GapAtrExceeds(gap, atr) ==
    IF TruthyFloat(atr) /\ Less(Float(0), atr)
    THEN Abs(gap) * GapAtrThreshold.den > GapAtrThreshold.num * atr.v
    ELSE FALSE

\* strategy.py:50-51  decision = None, reasoning = []
Undecided == [decision |-> "None", reasoning |-> <<>>]

Decide(r, decision, rule) ==
    [decision |-> decision, reasoning |-> Append(r.reasoning, rule)]

\* strategy.py:53-66  Rule 1: time pressure + large gap
time_pressure_rule(r, gap, secs, atr) ==
    IF secs <= TimePressureSeconds /\ GapAtrExceeds(gap, atr)
    THEN IF gap > 0 THEN Decide(r, "DOWN", "time_pressure")
         ELSE Decide(r, "UP", "time_pressure")
    ELSE r

\* strategy.py:68-86  Rule 2: strong trend
trend_rule(r, gap, ema_fast, ema_slow, return_3m, close) ==
    IF r.decision = "None" /\ ema_fast # None /\ ema_slow # None /\ return_3m # None
    THEN IF /\ Less(ema_fast, ema_slow)
            /\ Less(return_3m, Float(0))
            /\ Less(close, ema_fast)
            /\ gap > 0
         THEN Decide(r, "DOWN", "trend")
         ELSE IF /\ Less(ema_slow, ema_fast)
                 /\ Less(Float(0), return_3m)
                 /\ Less(ema_fast, close)
                 /\ gap < 0
         THEN Decide(r, "UP", "trend")
         ELSE r
    ELSE r

default_rule_ties_down(r, price, to_beat) ==
    IF r.decision = "None"
    THEN IF price <= to_beat THEN Decide(r, "DOWN", "default")
         ELSE Decide(r, "UP", "default")
    ELSE r

\* strategy.py:88-101  Rule 3: default on the sign of the gap
default_rule(r, price, to_beat) ==
    IF r.decision = "None"
    THEN IF price < to_beat THEN Decide(r, "DOWN", "default")
         ELSE Decide(r, "UP", "default")
    ELSE r

make_decision_trend_first(price, to_beat, secs, ind) ==
    LET ema_fast == DictGet(ind, "ema_fast", None)
        ema_slow == DictGet(ind, "ema_slow", None)
        atr == DictGet(ind, "atr", None)
        returns == DictGet(ind, "returns", <<>>)
        return_3m == DictGet(returns, "return_3m", None)
        close == DictGet(ind, "close", Float(price))
        gap == to_beat - price
        r == default_rule(
                 time_pressure_rule(
                     trend_rule(Undecided, gap, ema_fast, ema_slow, return_3m, close),
                     gap, secs, atr),
                 price, to_beat)
    IN  [decision |-> r.decision, reasoning |-> r.reasoning, gap |-> gap]

\* Strategy.make_decision(current_price, price_to_beat, seconds_left,
\* indicators), strategy.py:19-143: decision, reasoning and gap of the result
make_decision(price, to_beat, secs, ind) ==
    LET ema_fast == DictGet(ind, "ema_fast", None)
        ema_slow == DictGet(ind, "ema_slow", None)
        atr == DictGet(ind, "atr", None)
        returns == DictGet(ind, "returns", <<>>)
        return_3m == DictGet(returns, "return_3m", None)
        close == DictGet(ind, "close", Float(price))
        gap == to_beat - price
        r == default_rule(
                 trend_rule(
                     time_pressure_rule(Undecided, gap, secs, atr),
                     gap, ema_fast, ema_slow, return_3m, close),
                 price, to_beat)
    IN  [decision |-> r.decision, reasoning |-> r.reasoning, gap |-> gap]

\* decision_result before make_decision has returned
NoDecision == [decision |-> "None", reasoning |-> <<>>, gap |-> 0]

----------------------------------------------------------------------------
(* Candles: Candle and CandleBuilder (candles.py) *)

\* candles.py:54  interval_seconds and max_candles of the builder
IntervalSeconds == 60
MaxCandles == 2

\* Candle.__init__(timestamp)
Candle(timestamp) ==
    [timestamp |-> timestamp, open |-> None, high |-> None, low |-> None,
     close |-> None, volume |-> 0]

update_first_high(c, price) ==
    [c EXCEPT !.open = IF @ = None THEN Float(price) ELSE @,
              !.high = IF @ = None THEN Float(price) ELSE @,
              !.low = IF @ = None \/ price < @.v THEN Float(price) ELSE @,
              !.close = Float(price),
              !.volume = @ + 1]

\* Candle.update(price)
update(c, price) ==
    [c EXCEPT !.open = IF @ = None THEN Float(price) ELSE @,
              !.high = IF @ = None \/ price > @.v THEN Float(price) ELSE @,
              !.low = IF @ = None \/ price < @.v THEN Float(price) ELSE @,
              !.close = Float(price),
              !.volume = @ + 1]

\* Candle.is_complete()
is_complete(c) == c.open # None /\ c.high # None /\ c.low # None /\ c.close # None

\* CandleBuilder._round_to_interval(timestamp), in seconds since the epoch
_round_to_interval(timestamp) == (timestamp \div IntervalSeconds) * IntervalSeconds

\* a CandleBuilder: its history and its candle in progress
Builder(history, current) == [candles |-> history, current_candle |-> current]

\* s[-n:] for n > 0
LastSlice(s, n) == IF Len(s) > n THEN SubSeq(s, Len(s) - n + 1, Len(s)) ELSE s

TrimKeepingOldest(history) ==
    IF Len(history) > MaxCandles THEN SubSeq(history, 1, MaxCandles) ELSE history

\* candles.py:82-83  self.candles = self.candles[-self.max_candles:]
Trim(history) ==
    IF Len(history) > MaxCandles THEN LastSlice(history, MaxCandles) ELSE history

\* CandleBuilder.add_tick(price, timestamp)
add_tick(b, price, timestamp) ==
    LET candle_time == _round_to_interval(timestamp)
        cur == b.current_candle
        rolled ==
            IF cur = None \/ cur.timestamp # candle_time
            THEN Builder(IF cur # None /\ is_complete(cur)
                         THEN Trim(Append(b.candles, cur))
                         ELSE b.candles,
                         Candle(candle_time))
            ELSE b
    IN  Builder(rolled.candles, update(rolled.current_candle, price))

\* CandleBuilder.get_candles(count); count 0 stands for None as well, both
\* being false in `if count`
get_candles(b, count) ==
    LET candles_data == SelectSeq(b.candles, is_complete)
    IN  IF count # 0 THEN LastSlice(candles_data, count) ELSE candles_data

\* the candle builder where it is not under test
CandlesIdle ==
    /\ candles = <<>>
    /\ current_candle = None
    /\ ticks = <<>>

\* the state of what a specification leaves aside
\* the arguments of a primary discovery call left at their defaults
PagingIdle ==
    paging = [max_candidates |-> DefaultMaxCandidates, max_pages |-> DefaultMaxPages]

\* the price feed before RTDSClient.start()
FeedIdle ==
    /\ feed_pc = "unstarted"
    /\ rtds_running = FALSE
    /\ retry_count = 0
    /\ wait_time = 0
    /\ close_requested = FALSE
    /\ failures = 0
    /\ connections = 0

\* the market page where it is not read
ParseIdle ==
    market_page = [matches |-> <<>>, countdown |-> None]

\* the feed's queue before the first message
QueueIdle ==
    /\ price_queue = <<>>
    /\ prices = <<>>
    /\ drain_pc = "idle"
    /\ enqueued = <<>>
    /\ handled = 0

AuxIdle == CandlesIdle /\ PagingIdle /\ FeedIdle /\ ParseIdle /\ QueueIdle

----------------------------------------------------------------------------
(* The orchestrator at rest *)

\* the orchestrator before run() is entered
BotIdle ==
    /\ pc = "idle"
    /\ running = TRUE
    /\ watch_mode = FALSE
    /\ current_slug = NullSlug
    /\ current_market_url = NullSlug
    /\ current_market_details = NullSlug
    /\ browser = FALSE
    /\ page_url = <<>>
    /\ feed = FALSE
    /\ navigations = <<>>
    /\ iteration = 0
    /\ calls = <<>>
    /\ rediscovery = NotDiscovered
    /\ discover_calls = <<>>

\* _trading_cycle's locals before they are bound
LocalsUnbound ==
    /\ seconds_left = 0
    /\ current_price = 0
    /\ price_to_beat = 0
    /\ indicators = <<>>
    /\ decision_result = NoDecision

\* _trading_cycle is entered or left: its locals are unbound
UnbindLocals ==
    /\ seconds_left' = 0
    /\ current_price' = 0
    /\ price_to_beat' = 0
    /\ indicators' = <<>>
    /\ decision_result' = NoDecision

RunIdle == BotIdle /\ LocalsUnbound

----------------------------------------------------------------------------
(* The stake ledger: StakeManager over State (stake_manager.py, config.py) *)

\* results a ledger behaviour may record, and midnights it may pass
MaxResults == 4
MaxDays == 1

\* config.json, sections stake and safety (the file is not among the
\* sources): values small enough for every cap to be reached within
\* MaxResults results.  Amounts are whole dollars.
BaseStake == 2
MaxStake == 6
MaxWinStreak == 3
DailyMaxTrades == 3
DailyMaxLoss == 4

\* daily_stats.date of a fresh state.json (config.py:124)
NoDate == -1

\* datetime.utcnow().strftime("%Y-%m-%d") as a day number
UtcDate(at) == at \div DaySeconds

DailyStats(date, trades_count, wins, losses, total_profit_loss) ==
    [date |-> date, trades_count |-> trades_count, wins |-> wins,
     losses |-> losses, total_profit_loss |-> total_profit_loss]

\* State.state; of the last_* bookkeeping keys only last_result and last_slug
\* are kept ("" : None)
Ledger(current_stake, win_streak, daily_stats) ==
    [current_stake |-> current_stake, win_streak |-> win_streak,
     last_result |-> "", last_slug |-> NullSlug, daily_stats |-> daily_stats]

\* config.py:114-130  the state a first run starts from
FreshState == Ledger(BaseStake, 0, DailyStats(NoDate, 0, 0, 0, 0))

\* StakeManager.get_current_stake / get_win_streak
get_current_stake(st) == st.current_stake

get_win_streak(st) == st.win_streak

\* StakeManager.can_trade(daily_stats, safety_config)
can_trade_ignoring_stake(st) ==
    IF st.daily_stats.trades_count >= DailyMaxTrades
    THEN [ok |-> FALSE, reason |-> "Daily trade limit reached"]
    ELSE IF st.daily_stats.total_profit_loss < -DailyMaxLoss
    THEN [ok |-> FALSE, reason |-> "Daily loss limit exceeded"]
    ELSE [ok |-> TRUE, reason |-> "OK"]

can_trade_ignoring_trades(st) ==
    IF st.daily_stats.total_profit_loss < -DailyMaxLoss
    THEN [ok |-> FALSE, reason |-> "Daily loss limit exceeded"]
    ELSE IF get_current_stake(st) > MaxStake
    THEN [ok |-> FALSE, reason |-> "Stake exceeds maximum"]
    ELSE [ok |-> TRUE, reason |-> "OK"]

can_trade(st) ==
    IF st.daily_stats.trades_count >= DailyMaxTrades
    THEN [ok |-> FALSE, reason |-> "Daily trade limit reached"]
    ELSE IF st.daily_stats.total_profit_loss < -DailyMaxLoss
    THEN [ok |-> FALSE, reason |-> "Daily loss limit exceeded"]
    ELSE IF get_current_stake(st) > MaxStake
    THEN [ok |-> FALSE, reason |-> "Stake exceeds maximum"]
    ELSE [ok |-> TRUE, reason |-> "OK"]

\* StakeManager.calculate_next_stake(result); both branches of
\* reset_on_max_streak return the base stake
calculate_next_stake_uncapped(st, result) ==
    IF result = "W"
    THEN IF get_win_streak(st) + 1 >= MaxWinStreak THEN BaseStake
         ELSE get_current_stake(st) * 2
    ELSE IF result = "L" THEN BaseStake
    ELSE get_current_stake(st)

calculate_next_stake_keeps_on_loss(st, result) ==
    IF result = "W"
    THEN IF get_win_streak(st) + 1 >= MaxWinStreak THEN BaseStake
         ELSE IF get_current_stake(st) * 2 > MaxStake THEN MaxStake
         ELSE get_current_stake(st) * 2
    ELSE get_current_stake(st)

calculate_next_stake_skip_resets(st, result) ==
    IF result = "W"
    THEN IF get_win_streak(st) + 1 >= MaxWinStreak THEN BaseStake
         ELSE IF get_current_stake(st) * 2 > MaxStake THEN MaxStake
         ELSE get_current_stake(st) * 2
    ELSE BaseStake

calculate_next_stake_resets_late(st, result) ==
    IF result = "W"
    THEN IF get_win_streak(st) + 1 > MaxWinStreak THEN BaseStake
         ELSE IF get_current_stake(st) * 2 > MaxStake THEN MaxStake
         ELSE get_current_stake(st) * 2
    ELSE IF result = "L" THEN BaseStake
    ELSE get_current_stake(st)

calculate_next_stake(st, result) ==
    IF result = "W"
    THEN IF get_win_streak(st) + 1 >= MaxWinStreak THEN BaseStake
         ELSE IF get_current_stake(st) * 2 > MaxStake THEN MaxStake
         ELSE get_current_stake(st) * 2
    ELSE IF result = "L" THEN BaseStake
    ELSE get_current_stake(st)

Min(a, b) == IF a < b THEN a ELSE b

new_streak_frozen(st, result) ==
    IF result = "L" THEN 0 ELSE get_win_streak(st)

\* stake_manager.py:134-139
new_streak(st, result) ==
    IF result = "W" THEN Min(get_win_streak(st) + 1, MaxWinStreak)
    ELSE IF result = "L" THEN 0
    ELSE get_win_streak(st)

pnl_unsigned(result, stake_used) ==
    IF result = "S" THEN 0 ELSE stake_used

\* stake_manager.py:142
pnl(result, stake_used) ==
    IF result = "W" THEN stake_used
    ELSE IF result = "L" THEN -stake_used
    ELSE 0

\* stake_manager.py:127-150  first half of update_after_result, up to and
\* including State.update(current_stake, win_streak, last_result, ...)
StakeUpdated(st, result) ==
    [st EXCEPT !.current_stake = calculate_next_stake(st, result),
               !.win_streak = new_streak(st, result),
               !.last_result = result]

\* stake_manager.py:152-159  second half: the daily statistics
DailyUpdated(st, result, stake_used) ==
    [st EXCEPT !.daily_stats =
        DailyStats(st.daily_stats.date,
                   st.daily_stats.trades_count + (IF result # "S" THEN 1 ELSE 0),
                   st.daily_stats.wins + (IF result = "W" THEN 1 ELSE 0),
                   st.daily_stats.losses + (IF result = "L" THEN 1 ELSE 0),
                   st.daily_stats.total_profit_loss + pnl(result, stake_used))]

\* StakeManager.update_after_result(result, stake_used), start to end
update_after_result(st, result, stake_used) ==
    DailyUpdated(StakeUpdated(st, result), result, stake_used)

\* State.reset_daily_if_needed
reset_daily_if_needed(st, at) ==
    IF st.daily_stats.date # UtcDate(at)
    THEN [st EXCEPT !.daily_stats = DailyStats(UtcDate(at), 0, 0, 0, 0)]
    ELSE st

\* StakeManager.ask_for_result
Results == {"W", "L", "S"}

\* the stake_used argument: the stake placed, or another amount
StakesUsed == {2, 5}

\* no update_after_result call is in progress
NoUpdate == [active |-> FALSE, result |-> "", stake_used |-> 0, before |-> FreshState]

InProgress(result, stake_used, before) ==
    [active |-> TRUE, result |-> result, stake_used |-> stake_used, before |-> before]

Recorded(result, stake_used) == [result |-> result, stake_used |-> stake_used]

NoVerdict == [ok |-> FALSE, reason |-> ""]

\* the ledger where it is not under test
LedgerIdle ==
    /\ state = FreshState
    /\ persisted = FreshState
    /\ pending = NoUpdate
    /\ results = <<>>
    /\ verdict = NoVerdict

----------------------------------------------------------------------------
(* SpecLive: classification of one candidate at one instant *)


InitLive ==
    /\ candidate \in {Candidate(Slug("btc", "r1"), s, e, "event") :
                        s \in RawTimes, e \in RawTimes}
    /\ now \in NowPoints
    /\ liveness = Pending
    /\ api_pages = <<>>
    /\ primary = NotCalled
    /\ ui_page = NoPage
    /\ discovery = NotDiscovered
    /\ RunIdle
    /\ LedgerIdle
    /\ AuxIdle

\* one call of _is_candidate_live_now
ClassifyCandidate ==
    /\ liveness = Pending
    /\ liveness' = _is_candidate_live_now(candidate, now)
    /\ UNCHANGED <<candidate, now, api_pages, primary, discoverVars, runVars, ledgerVars>>
    /\ UNCHANGED auxVars

\* the clock moves on and the candidate is classified afresh
ClockAdvance ==
    /\ liveness # Pending
    /\ \E t \in NowPoints : t > now /\ now' = t
    /\ liveness' = Pending
    /\ UNCHANGED <<candidate, api_pages, primary, discoverVars, runVars, ledgerVars>>
    /\ UNCHANGED auxVars

NextLive == ClassifyCandidate \/ ClockAdvance

SpecLive == InitLive /\ [][NextLive]_vars

----------------------------------------------------------------------------
(* SpecPrimary: one primary discovery call against a paginated listing *)

InitPrimary ==
    /\ api_pages \in Listings
    /\ now \in PrimaryNows
    /\ primary = NotCalled
    /\ candidate = NoCandidate
    /\ liveness = Pending
    /\ ui_page = NoPage
    /\ discovery = NotDiscovered
    /\ RunIdle
    /\ LedgerIdle
    /\ AuxIdle

\* one call of discover_15m_event_via_events_api with its default arguments
CallPrimary ==
    /\ ~primary.done
    /\ primary' = [done |-> TRUE] @@
                    discover_15m_event_via_events_api(
                        api_pages, SlugPrefix("btc"),
                        DefaultMaxCandidates, DefaultMaxPages, now)
    /\ UNCHANGED <<api_pages, now, liveVars, discoverVars, runVars, ledgerVars>>
    /\ UNCHANGED auxVars

\* the caller discards the result; the clock has moved on by the next call
NextCallPrimary ==
    /\ primary.done
    /\ \E t \in PrimaryNows : t > now /\ now' = t
    /\ primary' = NotCalled
    /\ UNCHANGED <<api_pages, liveVars, discoverVars, runVars, ledgerVars>>
    /\ UNCHANGED auxVars

NextPrimary == CallPrimary \/ NextCallPrimary

SpecPrimary == InitPrimary /\ [][NextPrimary]_vars

----------------------------------------------------------------------------
(* SpecDiscover: one two-level discovery call *)

InitDiscover ==
    /\ api_pages \in BoundedSeq(DiscoverPages, MaxListingPages)
    /\ ui_page \in UiPages
    /\ now \in PrimaryNows
    /\ discovery = NotDiscovered
    /\ primary = NotCalled
    /\ candidate = NoCandidate
    /\ liveness = Pending
    /\ RunIdle
    /\ LedgerIdle
    /\ AuxIdle

\* one call of discover_15m_market, with or without a browser page
CallDiscoverMarket ==
    /\ ~discovery.called
    /\ \E with_page \in BOOLEAN :
          discovery' = [called |-> TRUE, page_given |-> with_page] @@
                       discover_15m_market(
                           "btc", SlugPrefix("btc"),
                           IF with_page THEN ui_page ELSE NoPage,
                           BaseUrl, api_pages, now)
    /\ UNCHANGED <<api_pages, ui_page, now, primaryVars, liveVars, runVars, ledgerVars>>
    /\ UNCHANGED auxVars

\* the clock has moved on by the next call
NextCallDiscover ==
    /\ discovery.called
    /\ \E t \in PrimaryNows : t > now /\ now' = t
    /\ discovery' = NotDiscovered
    /\ UNCHANGED <<api_pages, ui_page, primaryVars, liveVars, runVars, ledgerVars>>
    /\ UNCHANGED auxVars

NextDiscover == CallDiscoverMarket \/ NextCallDiscover

SpecDiscover == InitDiscover /\ [][NextDiscover]_vars

----------------------------------------------------------------------------
(* SpecLedger: the ledger under any sequence of results, guard checks,
   trade records, daily resets and midnights *)

ledgerFrame ==
    <<candidate, liveness, api_pages, primary, ui_page, discovery, runVars>>

\* a first run: State.load found no state.json
InitLedger ==
    /\ state = FreshState
    /\ persisted = FreshState
    /\ pending = NoUpdate
    /\ results = <<>>
    /\ verdict = NoVerdict
    /\ now = 450
    /\ candidate = NoCandidate
    /\ liveness = Pending
    /\ api_pages = <<>>
    /\ primary = NotCalled
    /\ ui_page = NoPage
    /\ discovery = NotDiscovered
    /\ RunIdle
    /\ AuxIdle

\* update_after_result, stake_manager.py:127-150: the next stake and streak
\* are computed and State.update saves them
UpdateStake ==
    /\ ~pending.active
    /\ Len(results) < MaxResults
    /\ \E result \in Results, stake_used \in StakesUsed :
          /\ state' = StakeUpdated(state, result)
          /\ persisted' = StakeUpdated(state, result)
          /\ pending' = InProgress(result, stake_used, state)
    /\ verdict' = NoVerdict
    /\ UNCHANGED <<now, results, ledgerFrame>>
    /\ UNCHANGED auxVars

\* update_after_result, stake_manager.py:152-159: the daily statistics are
\* updated and State.set saves them
UpdateDailyStats ==
    /\ pending.active
    /\ state' = DailyUpdated(state, pending.result, pending.stake_used)
    /\ persisted' = DailyUpdated(state, pending.result, pending.stake_used)
    /\ results' = Append(results, Recorded(pending.result, pending.stake_used))
    /\ pending' = NoUpdate
    /\ UNCHANGED <<now, verdict, ledgerFrame>>
    /\ UNCHANGED auxVars

\* StakeManager.can_trade
CanTradeCheck ==
    /\ ~pending.active
    /\ verdict' = can_trade(state)
    /\ UNCHANGED <<now, state, persisted, pending, results, ledgerFrame>>
    /\ UNCHANGED auxVars

\* main.py:449-454  State.update(last_asset, last_slug, last_decision, ...)
\* after an executed order
RecordTrade ==
    /\ ~pending.active
    /\ state.last_slug = NullSlug
    /\ state' = [state EXCEPT !.last_slug = Slug("btc", "r1")]
    /\ persisted' = [state EXCEPT !.last_slug = Slug("btc", "r1")]
    /\ UNCHANGED <<now, pending, results, verdict, ledgerFrame>>
    /\ UNCHANGED auxVars

\* State.reset_daily_if_needed; the statistics start afresh
ResetDaily ==
    /\ ~pending.active
    /\ state.daily_stats.date # UtcDate(now)
    /\ state' = reset_daily_if_needed(state, now)
    /\ persisted' = reset_daily_if_needed(state, now)
    /\ results' = <<>>
    /\ verdict' = NoVerdict
    /\ UNCHANGED <<now, pending, ledgerFrame>>
    /\ UNCHANGED auxVars

\* midnight UTC passes
DayPasses ==
    /\ UtcDate(now) < MaxDays
    /\ now' = now + DaySeconds
    /\ UNCHANGED <<state, persisted, pending, results, verdict, ledgerFrame>>
    /\ UNCHANGED auxVars

NextLedger ==
    \/ UpdateStake
    \/ UpdateDailyStats
    \/ CanTradeCheck
    \/ RecordTrade
    \/ ResetDaily
    \/ DayPasses

SpecLedger == InitLedger /\ [][NextLedger]_vars

----------------------------------------------------------------------------
(* Spec: the orchestrator, PolymrketBot.run *)

\* run-loop iterations a behaviour may begin
MaxIterations == 2

\* config trading.min_seconds_before_close / max_seconds_before_close
MinSecondsBeforeClose == 30
MaxSecondsBeforeClose == 600

\* Strategy.should_trade(seconds_left, min_seconds, max_seconds)
should_trade(secs, min_seconds, max_seconds) ==
    IF secs < min_seconds THEN FALSE
    ELSE IF secs > max_seconds THEN FALSE
    ELSE TRUE

cross_validation_exclusive(price, to_beat) ==
    IF to_beat > 0
    THEN ~(2 * price <= to_beat \/ price >= 2 * to_beat)
    ELSE FALSE

\* main.py:312-316  price_ratio = current_price / price_to_beat if
\* price_to_beat > 0 else 0; rejected when price_ratio < 0.5 or > 2.0.
\* Prices are whole numbers: c/p < 1/2 iff 2c < p, c/p > 2 iff c > 2p.
cross_validation(price, to_beat) ==
    IF to_beat > 0
    THEN ~(2 * price < to_beat \/ price > 2 * to_beat)
    ELSE FALSE

\* a step of the trading cycle and what came of it: "pass", "fail", "raise"
Call(step, outcome) == [step |-> step, outcome |-> outcome]

PassFail(b) == IF b THEN "pass" ELSE "fail"

\* main.py:296-426  where _trading_cycle goes after a step: on to the next
\* step when the step passed, out of the cycle (return) when it did not
trading_cycle_flow_unconfirmed(step, passed) ==
    CASE step = "cross_validation"      -> IF passed THEN "window" ELSE "end"
      [] step = "should_trade"          -> IF passed THEN "limits" ELSE "end"
      [] step = "can_trade"             -> IF passed THEN "prepare" ELSE "end"
      [] step = "prepare_trade"         -> IF passed THEN "confirm" ELSE "end"
      [] step = "wait_for_confirmation" -> "execute"
      [] OTHER                          -> "end"

trading_cycle_flow(step, passed) ==
    IF ~passed THEN "end"
    ELSE CASE step = "cross_validation"      -> "window"
           [] step = "should_trade"          -> "limits"
           [] step = "can_trade"             -> "prepare"
           [] step = "prepare_trade"         -> "confirm"
           [] step = "wait_for_confirmation" -> "execute"
           [] OTHER                          -> "end"

\* main.py:238  market_info and market_info['slug'] != self.current_slug
is_new_market_any(market_info, slug) == market_info # <<>>

is_new_market(market_info, slug) ==
    market_info # <<>> /\ market_info[1].slug # slug

\* one discover_15m_market call as the orchestrator made it
DiscoverCall(page, at, r) ==
    [page_given |-> page.given, at |-> at,
     slug |-> IF r.result = <<>> THEN NullSlug ELSE r.result[1].slug]

\* the record of the last two calls
Remember(log, call) ==
    IF Len(log) < 2 THEN Append(log, call) ELSE <<log[2], call>>

\* the upstream listings and aggregator pages of a run
RunListings ==
    {<<>>,
     <<ErrorPage>>,
     <<OkPage(<<SimpleEvent(Slug("btc", "r1"), Iso(0), Num(900))>>)>>,
     <<OkPage(<<SimpleEvent(Slug("btc", "r1"), Iso(0), Num(900)),
                SimpleEvent(Slug("btc", "r3"), Num(900), Iso(1800))>>)>>}

RunUiPages ==
    {UiPage(TRUE, <<>>),
     UiPage(FALSE, <<>>),
     UiPage(FALSE, <<Link(Href(Slug("btc", "r1")), CardText("btc"), "none")>>)}

\* instants of a run: within the first rounds, and on the next UTC day
RunNows == {450, 1350, 1800, DaySeconds + 450}

\* the indicators a trading cycle computes: no candles yet, or a downtrend
RunIndicators ==
    {EmptyIndicators,
     Indicators(Float(98), Float(100), Float(5),
                [return_3m |-> Float(-1), return_5m |-> Float(-1)], Float(97))}

\* what the market page and the feed offer a trading cycle
CurrentPrices == {100}
PricesToBeat == {0, 40, 50, 200, 210}
SecondsLeft == {10, 30, 600, 700}

\* config.json as Config.get reads it: the leaf value at each path of keys
ConfigJson == (<<"stake", "result_mode">> :> "manual")

IsPrefix(p, q) == Len(p) <= Len(q) /\ SubSeq(q, 1, Len(p)) = p

\* Config.get(*keys, default=None), config.py:67-83: every positional
\* argument is a key; a key is followed only into a dict that holds it
RECURSIVE ConfigWalk(_, _, _)
ConfigWalk(walked, keys, default) ==
    IF keys = <<>>
    THEN (IF walked \in DOMAIN ConfigJson THEN ConfigJson[walked] ELSE "dict")
    ELSE LET next == Append(walked, Head(keys)) IN
         IF walked \notin DOMAIN ConfigJson
            /\ \E q \in DOMAIN ConfigJson : IsPrefix(next, q)
         THEN ConfigWalk(next, Tail(keys), default)
         ELSE default

Config_get(keys, default) == ConfigWalk(<<>>, keys, default)

\* main.py:449-457, 468-501  the executed order is recorded (State.update
\* saves); in manual result mode the human's result updates the ledger
_handle_trade_result(recorded, stake_used) ==
    IF Config_get(<<"stake", "result_mode", "manual">>, "None") = "manual"
    THEN \E result \in Results :
            /\ state' = update_after_result(recorded, result, stake_used)
            /\ persisted' = update_after_result(recorded, result, stake_used)
            /\ results' = Append(results, Recorded(result, stake_used))
    ELSE /\ state' = recorded
         /\ persisted' = recorded
         /\ UNCHANGED results

\* the ledger a run finds in state.json: that of a first run, or that of an
\* earlier run of the same day which reached the daily trade limit
RunLedgers ==
    {FreshState,
     Ledger(BaseStake, 0, DailyStats(UtcDate(450), DailyMaxTrades, 1, 2, -2))}

restVars == <<candidate, liveness, primary, discovery>>
upstreamVars == <<api_pages, ui_page>>

\* the state after PolymrketBot.__init__, on entry to run()
Init ==
    /\ api_pages \in RunListings
    /\ ui_page \in RunUiPages
    /\ now = 450
    /\ watch_mode \in BOOLEAN
    /\ pc = "discover"
    /\ running = TRUE
    /\ current_slug = NullSlug
    /\ current_market_url = NullSlug
    /\ current_market_details = NullSlug
    /\ browser = FALSE
    /\ page_url = <<>>
    /\ feed = FALSE
    /\ navigations = <<>>
    /\ iteration = 0
    /\ calls = <<>>
    /\ rediscovery = NotDiscovered
    /\ discover_calls = <<>>
    /\ LocalsUnbound
    /\ candidate = NoCandidate
    /\ liveness = Pending
    /\ primary = NotCalled
    /\ discovery = NotDiscovered
    /\ state \in RunLedgers
    /\ persisted = state
    /\ pending = NoUpdate
    /\ results = <<>>
    /\ verdict = NoVerdict
    /\ AuxIdle

\* time passes
Tick ==
    /\ pc \notin {"idle", "done"}
    /\ \E t \in RunNows : t > now /\ now' = t
    /\ UNCHANGED <<upstreamVars, restVars, runVars, ledgerVars>>
    /\ UNCHANGED auxVars

\* PolymrketBot._signal_handler (SIGINT, SIGTERM)
Signal ==
    /\ pc \notin {"idle", "done"}
    /\ running
    /\ running' = FALSE
    /\ UNCHANGED <<now, upstreamVars, restVars, ledgerVars, pc, watch_mode, current_slug,
                   current_market_url, current_market_details, sessionVars,
                   cycleVars, discover_calls>>
    /\ UNCHANGED auxVars

\* main.py:172-188, 205-220  the market found becomes the current market and
\* its details are fetched (get_market_details_with_tokens may yield None)
Adopt(market) ==
    /\ current_slug' = market.slug
    /\ current_market_url' = market.url
    /\ current_market_details' \in {NullSlug, market.slug}

\* run() up to the first discovery call of _discover_market (main.py:90-192)
DiscoverMarketPrimary ==
    /\ pc = "discover"
    /\ \E market_info \in {discover_15m_market("btc", SlugPrefix("btc"), NoPage,
                                                BaseUrl, api_pages, now)} :
           /\ discover_calls' =
                 Remember(discover_calls, DiscoverCall(NoPage, now, market_info))
           /\ IF market_info.result # <<>>
              THEN /\ Adopt(market_info.result[1])
                   /\ pc' = "open"
                   /\ UNCHANGED browser
              ELSE /\ browser' = TRUE
                   /\ pc' = "fallback"
                   /\ UNCHANGED <<current_slug, current_market_url,
                                  current_market_details>>
    /\ state' = reset_daily_if_needed(state, now)                 \* main.py:90
    /\ persisted' = reset_daily_if_needed(state, now)
    /\ UNCHANGED <<now, upstreamVars, restVars, pending, results, verdict,
                   running, watch_mode, page_url, feed, navigations, cycleVars>>
    /\ UNCHANGED auxVars

\* the second discovery call of _discover_market (main.py:195-220); when it
\* finds nothing run() returns (main.py:93-95)
DiscoverMarketFallback ==
    /\ pc = "fallback"
    /\ \E market_info \in {discover_15m_market("btc", SlugPrefix("btc"), ui_page,
                                                BaseUrl, api_pages, now)} :
           /\ discover_calls' =
                 Remember(discover_calls, DiscoverCall(ui_page, now, market_info))
           /\ page_url' = IF market_info.goto # <<>> THEN market_info.goto
                          ELSE page_url
           /\ IF market_info.result # <<>>
              THEN /\ Adopt(market_info.result[1])
                   /\ pc' = "open"
              ELSE /\ pc' = "cleanup"
                   /\ UNCHANGED <<current_slug, current_market_url,
                                  current_market_details>>
    /\ UNCHANGED <<now, upstreamVars, restVars, ledgerVars, running, watch_mode, browser,
                   feed, navigations, cycleVars>>
    /\ UNCHANGED auxVars

\* main.py:97-118  browser, price feed, initial data, navigation, login
OpenSession ==
    /\ pc = "open"
    /\ browser' = TRUE
    /\ feed' = TRUE
    /\ navigations' = Append(navigations, current_market_url)
    /\ \E loaded \in BOOLEAN :
          IF loaded
          THEN page_url' = current_market_url /\ pc' = "loop"
          ELSE page_url' = page_url /\ pc' = "cleanup"
    /\ UNCHANGED <<now, upstreamVars, restVars, ledgerVars, botVars, cycleVars, discover_calls>>
    /\ UNCHANGED auxVars

\* main.py:121  while self.running
LoopTest ==
    /\ pc = "loop"
    /\ IF running
       THEN /\ iteration < MaxIterations
            /\ iteration' = iteration + 1
            /\ calls' = <<>>
            /\ rediscovery' = NotDiscovered
            /\ UnbindLocals
            /\ pc' = IF watch_mode THEN "check" ELSE "cycle"
       ELSE /\ pc' = "cleanup"
            /\ UNCHANGED cycleVars
    /\ UNCHANGED <<now, upstreamVars, restVars, ledgerVars, botVars, sessionVars, discover_calls>>
    /\ UNCHANGED auxVars

\* PolymrketBot._check_for_new_market (main.py:124-125, 222-248)
CheckForNewMarket ==
    /\ pc = "check"
    /\ \E market_info \in {discover_15m_market("btc", SlugPrefix("btc"), ui_page,
                                                BaseUrl, api_pages, now)} :
       LET arrived == IF market_info.goto # <<>> THEN market_info.goto ELSE page_url
       IN  /\ discover_calls' =
                 Remember(discover_calls, DiscoverCall(ui_page, now, market_info))
           /\ rediscovery' = [called |-> TRUE, page_given |-> TRUE] @@ market_info
           /\ IF is_new_market(market_info.result, current_slug)
              THEN /\ current_slug' = market_info.result[1].slug
                   /\ current_market_url' = market_info.result[1].url
                   /\ navigations' = Append(navigations, market_info.result[1].url)
                   /\ \E loaded \in BOOLEAN :
                         IF loaded
                         THEN page_url' = market_info.result[1].url /\ pc' = "cycle"
                         ELSE page_url' = arrived /\ pc' = "failed"
              ELSE /\ page_url' = arrived
                   /\ pc' = "cycle"
                   /\ UNCHANGED <<current_slug, current_market_url, navigations>>
    /\ UNCHANGED <<now, upstreamVars, restVars, ledgerVars, running, watch_mode,
                   current_market_details, browser, feed, iteration, calls,
                   cycleLocals>>
    /\ UNCHANGED auxVars

cycleFrame == <<now, upstreamVars, restVars, watch_mode, current_slug,
                current_market_url, current_market_details, sessionVars,
                iteration, rediscovery, discover_calls>>

\* _trading_cycle, main.py:284-332: candles, market info (parsed, or typed
\* in when parsing fails), feed price, cross-validation
CycleValidate ==
    /\ pc = "cycle"
    /\ \E parsed \in BOOLEAN, has_price \in BOOLEAN, price \in CurrentPrices,
          to_beat \in PricesToBeat, secs \in SecondsLeft :
          LET info == IF parsed
                      THEN <<Call("parse_market_info", "pass")>>
                      ELSE <<Call("parse_market_info", "fail"),
                             Call("ask_manual_market_info", "pass")>>
              valid == cross_validation(price, to_beat)
          IN  IF ~has_price
              THEN /\ calls' = calls \o info \o <<Call("get_latest_price", "fail")>>
                   /\ seconds_left' = 0
                   /\ current_price' = 0
                   /\ price_to_beat' = 0
                   /\ pc' = "end"
              ELSE /\ calls' = calls \o info
                               \o <<Call("get_latest_price", "pass"),
                                    Call("cross_validation", PassFail(valid))>>
                   /\ seconds_left' = IF valid THEN secs ELSE 0
                   /\ current_price' = price
                   /\ price_to_beat' = to_beat
                   /\ pc' = trading_cycle_flow("cross_validation", valid)
    /\ UNCHANGED <<cycleFrame, running, indicators, decision_result, ledgerVars>>
    /\ UNCHANGED auxVars

\* main.py:335-342
CycleWindow ==
    /\ pc = "window"
    /\ LET ok == should_trade(seconds_left, MinSecondsBeforeClose,
                              MaxSecondsBeforeClose)
       IN  /\ calls' = Append(calls, Call("should_trade", PassFail(ok)))
           /\ pc' = trading_cycle_flow("should_trade", ok)
    /\ UNCHANGED <<cycleFrame, running, cycleLocals, ledgerVars>>
    /\ UNCHANGED auxVars

running_after_limits_unchanged(ok, was_running) == was_running

\* main.py:350-354  if not can_trade: self.running = False; return
running_after_limits(ok, was_running) == IF ok THEN was_running ELSE FALSE

\* main.py:345-354  StakeManager.can_trade; a rejection ends the run
CycleLimits ==
    /\ pc = "limits"
    /\ verdict' = can_trade(state)
    /\ calls' = Append(calls, Call("can_trade", PassFail(can_trade(state).ok)))
    /\ running' = running_after_limits(can_trade(state).ok, running)
    /\ pc' = trading_cycle_flow("can_trade", can_trade(state).ok)
    /\ UNCHANGED <<cycleFrame, cycleLocals, state, persisted, pending, results>>
    /\ UNCHANGED auxVars

\* main.py:357-409  indicators, decision, decision log, prepare_trade
CyclePrepare ==
    /\ pc = "prepare"
    /\ \E success \in BOOLEAN, ind \in RunIndicators :
          /\ indicators' = ind
          /\ decision_result' =
                 make_decision(current_price, price_to_beat, seconds_left, ind)
          /\ calls' = calls \o <<Call("make_decision", "pass"),
                                 Call("log_decision", "pass"),
                                 Call("prepare_trade", PassFail(success))>>
          /\ pc' = trading_cycle_flow("prepare_trade", success)
    /\ UNCHANGED <<cycleFrame, running, seconds_left, current_price, price_to_beat,
                   ledgerVars>>
    /\ UNCHANGED auxVars

\* main.py:412-423, ui_oneclick.py:224-229  input() returns (ENTER), raises
\* KeyboardInterrupt (False is returned) or raises another exception (EOF)
CycleConfirm ==
    /\ pc = "confirm"
    /\ \E answer \in {"enter", "interrupt", "eof"} :
          IF answer = "eof"
          THEN /\ calls' = Append(calls, Call("wait_for_confirmation", "raise"))
               /\ pc' = "failed"
          ELSE /\ calls' = Append(calls, Call("wait_for_confirmation",
                                              PassFail(answer = "enter")))
               /\ pc' = trading_cycle_flow("wait_for_confirmation",
                                           answer = "enter")
    /\ UNCHANGED <<cycleFrame, running, cycleLocals, ledgerVars>>
    /\ UNCHANGED auxVars

\* main.py:426-459  execute_trade, trade log, state update, result handling
CycleExecute ==
    /\ pc = "execute"
    /\ \E executed \in BOOLEAN :
          /\ calls' = Append(calls, Call("execute_trade", PassFail(executed)))
          /\ IF executed
             THEN _handle_trade_result([state EXCEPT !.last_slug = current_slug],
                                       get_current_stake(state))
             ELSE UNCHANGED <<state, persisted, results>>
    /\ pc' = "end"
    /\ UNCHANGED <<cycleFrame, running, cycleLocals, pending, verdict>>
    /\ UNCHANGED auxVars

after_cycle_always_loop(watch) == "loop"

after_cycle_always_leave(watch) == "cleanup"

\* main.py:131-132, 143-144  if not self.watch_mode: break; after a cycle
\* that returned and after one that raised alike
after_cycle(watch) == IF watch THEN "loop" ELSE "cleanup"

\* main.py:131-136  the cycle returned: single-shot leaves the loop, watch
\* mode sleeps and tests the loop condition again
EndCycle ==
    /\ pc = "end"
    /\ pc' = after_cycle(watch_mode)
    /\ UnbindLocals
    /\ UNCHANGED <<now, upstreamVars, restVars, ledgerVars, botVars, sessionVars,
                   iteration, calls, rediscovery, discover_calls>>
    /\ UNCHANGED auxVars

\* main.py:141-145  except Exception
HandleException ==
    /\ pc = "failed"
    /\ pc' = after_cycle(watch_mode)
    /\ UnbindLocals
    /\ UNCHANGED <<now, upstreamVars, restVars, ledgerVars, botVars, sessionVars,
                   iteration, calls, rediscovery, discover_calls>>
    /\ UNCHANGED auxVars

rtds_stop_skipped(started) == started

\* RTDSClient.stop (rtds.py:176-192): the client is no longer running
rtds_stop(started) == FALSE

\* OneClickUI.stop_browser (ui_oneclick.py:49-55)
stop_browser(started) == FALSE

\* main.py:147-148, 503-513  finally: _cleanup()
Cleanup ==
    /\ pc = "cleanup"
    /\ feed' = rtds_stop(feed)
    /\ browser' = stop_browser(browser)
    /\ pc' = "done"
    /\ UNCHANGED <<now, upstreamVars, restVars, ledgerVars, botVars, page_url, navigations,
                   cycleVars, discover_calls>>
    /\ UNCHANGED auxVars

Next ==
    \/ Tick
    \/ Signal
    \/ DiscoverMarketPrimary
    \/ DiscoverMarketFallback
    \/ OpenSession
    \/ LoopTest
    \/ CheckForNewMarket
    \/ CycleValidate
    \/ CycleWindow
    \/ CycleLimits
    \/ CyclePrepare
    \/ CycleConfirm
    \/ CycleExecute
    \/ EndCycle
    \/ HandleException
    \/ Cleanup

Spec == Init /\ [][Next]_vars

----------------------------------------------------------------------------
(* Properties of liveness classification and selection *)

\* a raw value that denotes an instant
Resolvable(v) == v.kind \in {"iso", "isonaive", "numstr", "num"}

ResolvableCandidate(c) == Resolvable(c.start) /\ Resolvable(c.end)

\* C2: a candidate whose start or end is missing or does not parse is never
\* classified live and is never the market primary discovery returns.
FailClosedLiveness ==
    primary.done =>
        /\ \A i \in DOMAIN primary.live_markets :
               ResolvableCandidate(primary.live_markets[i])
        /\ \A i \in DOMAIN primary.selected :
               ResolvableCandidate(primary.selected[i])

\* C2 witness: a call that saw an unresolvable candidate whose other bound
\* would make it live, and still returned a market
FailClosedWitness ==
    /\ primary.done
    /\ primary.selected # <<>>
    /\ \E i \in DOMAIN primary.all_candidates :
          LET c == primary.all_candidates[i] IN
          /\ ~Resolvable(c.start)
          /\ Resolvable(c.end)
          /\ now < _parse_candidate_datetime(c, "end").t

\* C4: the classification is exactly one of live, future, past, unknown_time;
\* unknown_time exactly when start or end does not parse or end - start is
\* 24 hours or more; otherwise live exactly when start <= now < end, future
\* exactly when now < start, past otherwise.
LivenessIsPartition ==
    liveness # Pending =>
        LET start_dt == _parse_candidate_datetime(candidate, "start")
            end_dt   == _parse_candidate_datetime(candidate, "end")
            unknown  == \/ ~start_dt.ok
                        \/ ~end_dt.ok
                        \/ end_dt.t - start_dt.t >= 24 * 3600
        IN  /\ liveness.status \in {"live", "future", "past", "unknown_time"}
            /\ liveness.is_live <=> liveness.status = "live"
            /\ liveness.status = "unknown_time" <=> unknown
            /\ liveness.status = "live" <=>
                    (~unknown /\ start_dt.t <= now /\ now < end_dt.t)
            /\ liveness.status = "future" <=> (~unknown /\ now < start_dt.t)
            /\ liveness.status = "past" <=>
                    (~unknown /\ ~(now < start_dt.t)
                              /\ ~(start_dt.t <= now /\ now < end_dt.t))

\* C4 witness: a candidate classified at the very instant its round ends
LivenessBoundaryWitness ==
    /\ liveness.status = "past"
    /\ _parse_candidate_datetime(candidate, "end").t = now
    /\ _parse_candidate_datetime(candidate, "start").t < now

\* the parsed end of a candidate that reached the selection
EndOf(c) == _parse_candidate_datetime(c, "end").t

DistinctEnds(cs) ==
    \A i, j \in DOMAIN cs : i # j => EndOf(cs[i]) # EndOf(cs[j])

Permuted(cs, p) == [i \in DOMAIN cs |-> cs[p[i]]]

\* C5: the market primary discovery returns has the minimum end of all live
\* candidates; when the live candidates have distinct ends, every
\* permutation of them yields the same market.
TieBreakEarliestEnd ==
    (primary.done /\ primary.live_markets # <<>>) =>
        /\ primary.selected # <<>>
        /\ \E i \in DOMAIN primary.live_markets :
               primary.selected[1] = primary.live_markets[i]
        /\ \A i \in DOMAIN primary.live_markets :
               EndOf(primary.selected[1]) <= EndOf(primary.live_markets[i])
        /\ DistinctEnds(primary.live_markets) =>
               \A p \in Permutations(DOMAIN primary.live_markets) :
                   _select_best_live_market(Permuted(primary.live_markets, p))
                       = primary.selected

\* C5 witness: three live candidates with distinct ends, the earliest of them
\* not first in the listing
TieBreakWitness ==
    /\ primary.done
    /\ Len(primary.live_markets) = 3
    /\ DistinctEnds(primary.live_markets)
    /\ primary.selected # <<>>
    /\ primary.selected[1] # primary.live_markets[1]

----------------------------------------------------------------------------
(* Properties of the two-level discovery *)

\* what each level yields on the inputs of the call
PrimaryFound ==
    discover_15m_event_via_events_api(
        api_pages, SlugPrefix("btc"), DefaultMaxCandidates, DefaultMaxPages, now).selected

UiFound == discover_15m_event_via_ui("btc", ui_page, BaseUrl).found

Invoked(level) == \E i \in DOMAIN discovery.levels : discovery.levels[i] = level

\* C3: the levels run in strict order, each at most once; the UI level runs
\* only after the primary level found no live candidate and only with a
\* page; a primary success is tagged EVENTS_PRIMARY and leaves the browser
\* alone; the call fails exactly when primary failed and (no page was
\* supplied or the UI level failed).
DiscoveryLevelOrder ==
    discovery.called =>
        /\ discovery.levels \in {<<"EVENTS_PRIMARY">>, <<"EVENTS_PRIMARY", "UI_FALLBACK">>}
        /\ Invoked("UI_FALLBACK") => (PrimaryFound = <<>> /\ discovery.page_given)
        /\ PrimaryFound # <<>> =>
              /\ discovery.result # <<>>
              /\ discovery.result[1].source = "EVENTS_PRIMARY"
              /\ discovery.result[1].slug = PrimaryFound[1].slug
              /\ ~Invoked("UI_FALLBACK")
              /\ discovery.goto = <<>>
        /\ (PrimaryFound = <<>> /\ ~discovery.page_given) =>
              (discovery.result = <<>> /\ ~Invoked("UI_FALLBACK"))
        /\ discovery.result = <<>> <=>
              (PrimaryFound = <<>> /\ (~discovery.page_given \/ UiFound = <<>>))

\* C3 witness: the primary level found nothing and the UI level, run second,
\* produced the market
LevelOrderWitness ==
    /\ discovery.called
    /\ discovery.levels = <<"EVENTS_PRIMARY", "UI_FALLBACK">>
    /\ discovery.result # <<>>
    /\ api_pages # <<>>

\* a page whose processing raises: transport error, or an event whose slug
\* is JSON null
PageRaises(p) ==
    \/ p.kind = "error"
    \/ \E i \in DOMAIN p.events : p.events[i].slug = NullSlug

RECURSIVE CandidateCount(_, _)
CandidateCount(pages, k) ==
    IF k = 0 THEN 0
    ELSE CandidateCount(pages, k - 1)
         + Len(_extract_candidates_from_events(pages[k].events, SlugPrefix("btc")).value)

\* the pagination reaches a page that raises
PrimaryRaises ==
    \E k \in 1..Len(api_pages) :
        /\ k <= DefaultMaxPages
        /\ PageRaises(api_pages[k])
        /\ \A j \in 1..(k - 1) :
              /\ ~PageRaises(api_pages[j])
              /\ api_pages[j].events # <<>>
              /\ CandidateCount(api_pages, j) < DefaultMaxCandidates

PrimaryYieldedNothing ==
    discovery.result = <<>> \/ discovery.result[1].source # "EVENTS_PRIMARY"

\* the aggregator page without the links whose reading raises
WithoutRaisingLinks(ui) ==
    [ui EXCEPT !.links = SelectSeq(@, LAMBDA l : l.raises = "none")]

\* C7 (as amended): discover_15m_market never raises; an exception on any
\* page of the primary pagination makes the primary level yield nothing; an
\* exception while opening the aggregator page makes the UI level yield
\* nothing; an exception while reading one link only skips that link.
DiscoveryExceptionsContained ==
    discovery.called =>
        /\ ~discovery.escaped
        /\ PrimaryRaises => PrimaryYieldedNothing
        /\ (Invoked("UI_FALLBACK") /\ ui_page.goto_raises) => discovery.result = <<>>
        /\ Invoked("UI_FALLBACK") =>
              discovery.result =
                  discover_15m_event_via_ui("btc", WithoutRaisingLinks(ui_page), BaseUrl).found

\* C7 witness: the second page of the listing fails after the first carried a
\* live round, and the UI level returns a market after skipping a link that
\* raised
ExceptionsContainedWitness ==
    /\ discovery.called
    /\ Len(api_pages) = 2
    /\ PrimaryRaises
    /\ discover_15m_event_via_events_api(
            <<api_pages[1]>>, SlugPrefix("btc"), DefaultMaxCandidates,
            DefaultMaxPages, now).selected # <<>>
    /\ Invoked("UI_FALLBACK")
    /\ discovery.caught > 0
    /\ discovery.result # <<>>

\* C7 as stated: every exception raised during a level makes that level
\* yield no candidate at all.
AnyExceptionYieldsNothing ==
    discovery.called =>
        /\ ~discovery.escaped
        /\ PrimaryRaises => PrimaryYieldedNothing
        /\ (Invoked("UI_FALLBACK") /\ discovery.caught > 0) => discovery.result = <<>>

\* C8: every market the discovery returns has a slug that starts with the
\* asset's slug prefix.
ReturnedSlugHasPrefix ==
    discovery.result # <<>> => StartsWith(discovery.result[1].slug, SlugPrefix("btc"))

----------------------------------------------------------------------------
(* Properties of the orchestrator *)

\* the checks a trading cycle makes before an order, in the order it makes them
Gates ==
    <<"cross_validation", "should_trade", "can_trade", "prepare_trade",
      "wait_for_confirmation">>

\* positions in the cycle log at which the step passed
PassedAt(step) == {i \in DOMAIN calls : calls[i] = Call(step, "pass")}

ExecuteAt == {i \in DOMAIN calls : calls[i].step = "execute_trade"}

\* C1: in every trading cycle execute_trade is called only after, earlier in
\* the same cycle and in this order, the cross-validation passed, should_trade
\* accepted, can_trade returned true, prepare_trade returned true and
\* wait_for_confirmation returned true; a cycle in which one of them failed,
\* or in which the human cancelled, executes no order.
ExecuteOnlyAfterGates ==
    /\ \A x \in ExecuteAt :
          \E a \in PassedAt(Gates[1]), b \in PassedAt(Gates[2]),
             c \in PassedAt(Gates[3]), d \in PassedAt(Gates[4]),
             e \in PassedAt(Gates[5]) :
                a < b /\ b < c /\ c < d /\ d < e /\ e < x
    /\ \A j \in DOMAIN calls :
          (\E g \in DOMAIN Gates : calls[j].step = Gates[g] /\ calls[j].outcome # "pass")
              => ExecuteAt = {}
    /\ (\E j \in DOMAIN calls : calls[j] = Call("get_latest_price", "fail"))
          => ExecuteAt = {}

\* an order was placed in the cycle
ExecuteAfterGatesWitness ==
    \E x \in ExecuteAt : calls[x].outcome = "pass"

ExhaustionIsFatal ==
    /\ current_slug = NullSlug => (~feed /\ iteration = 0 /\ calls = <<>>)
    /\ (rediscovery.called /\ rediscovery.result = <<>>) => calls = <<>>

----------------------------------------------------------------------------
(* SpecCanTrade: StakeManager.can_trade on the ledgers a state.json can hold *)

\* current_stake values of a stored state.json, also from a run with a larger
\* max_stake_usd
StoredStakes == {BaseStake, MaxStake, MaxStake + 1, 2 * MaxStake}

\* total_profit_loss values on both sides of the loss limit
StoredPnls == {-DailyMaxLoss - 1, -DailyMaxLoss, 0, 3}

\* ledgers whose statistics some sequence of results of the day produces
StoredLedgers ==
    {Ledger(s, 0, DailyStats(UtcDate(450), w + l, w, l, p)) :
        <<s, w, l, p>> \in
            {x \in StoredStakes \X (0..2) \X (0..2) \X StoredPnls :
                /\ (x[2] + x[3] = 0 => x[4] = 0)
                /\ (x[2] > 0 /\ x[3] = 0 => x[4] > 0)
                /\ (x[2] = 0 /\ x[3] > 0 => x[4] < 0)}}

InitCanTrade ==
    /\ state \in StoredLedgers
    /\ persisted = state
    /\ pending = NoUpdate
    /\ results = <<>>
    /\ verdict = NoVerdict
    /\ now = 450
    /\ candidate = NoCandidate
    /\ liveness = Pending
    /\ api_pages = <<>>
    /\ primary = NotCalled
    /\ ui_page = NoPage
    /\ discovery = NotDiscovered
    /\ RunIdle
    /\ AuxIdle

NextCanTrade == CanTradeCheck

SpecCanTrade == InitCanTrade /\ [][NextCanTrade]_vars

----------------------------------------------------------------------------
(* SpecDecision: one Strategy.make_decision call on given arguments *)

\* prices to beat around a current price of 100: gaps of 0, 4, 5 and 10 on
\* both sides
DecisionPricesToBeat == {90, 95, 96, 100, 104, 105, 110}

\* on and just past time_pressure_seconds
DecisionSeconds == {TimePressureSeconds, TimePressureSeconds + 1}

\* the returns dictionary: return_3m missing (return_periods without 3), NaN
\* (fewer than four candles), negative, positive
DecisionReturns ==
    {[return_5m |-> Float(1)]}
    \cup {[return_3m |-> r, return_5m |-> r] : r \in {NaN, Float(-1), Float(1)}}

\* get_indicators of an empty frame, and of frames whose fast EMA is under,
\* on and over the slow EMA, with a flat and a positive ATR
DecisionIndicators ==
    {EmptyIndicators}
    \cup {Indicators(Float(f), Float(100), Float(a), rets, Float(c)) :
            <<f, a, rets, c>> \in {98, 100, 102} \X {0, 5} \X DecisionReturns
                                 \X {97, 100, 103}}

InitDecision ==
    /\ current_price = 100
    /\ price_to_beat \in DecisionPricesToBeat
    /\ seconds_left \in DecisionSeconds
    /\ indicators \in DecisionIndicators
    /\ decision_result = NoDecision
    /\ BotIdle
    /\ LedgerIdle
    /\ now = 450
    /\ candidate = NoCandidate
    /\ liveness = Pending
    /\ api_pages = <<>>
    /\ primary = NotCalled
    /\ ui_page = NoPage
    /\ discovery = NotDiscovered
    /\ AuxIdle

\* decision_result = self.strategy.make_decision(current_price,
\* price_to_beat, seconds_left, indicators)
MakeDecision ==
    /\ decision_result = NoDecision
    /\ decision_result' =
           make_decision(current_price, price_to_beat, seconds_left, indicators)
    /\ UNCHANGED <<candidate, now, liveness, api_pages, primary, ui_page, discovery,
                   pc, botVars, sessionVars, iteration, calls, rediscovery,
                   seconds_left, current_price, price_to_beat, indicators,
                   discover_calls, ledgerVars>>
    /\ UNCHANGED auxVars

NextDecision == MakeDecision

SpecDecision == InitDecision /\ [][NextDecision]_vars

----------------------------------------------------------------------------
(* SpecCandles: CandleBuilder.add_tick over any sequence of ticks *)

\* ticks of a behaviour
MaxTicks == 4

\* prices and timestamps (seconds) of the ticks: two instants in the first
\* interval, one in each of three later intervals; ticks arrive in any order
TickPrices == {1, 2, 3}
TickTimes == {0, 30, 60, 120, 180}

TickOf(price, timestamp) == [price |-> price, timestamp |-> timestamp]

InitCandles ==
    /\ candles = <<>>
    /\ current_candle = None
    /\ ticks = <<>>
    /\ now = 450
    /\ candidate = NoCandidate
    /\ liveness = Pending
    /\ api_pages = <<>>
    /\ primary = NotCalled
    /\ ui_page = NoPage
    /\ discovery = NotDiscovered
    /\ RunIdle
    /\ LedgerIdle
    /\ PagingIdle
    /\ FeedIdle
    /\ ParseIdle
    /\ QueueIdle

\* main.py:261-264, 463-466  self.candles.add_tick(tick['price'],
\* tick['timestamp']) for a tick drained from the feed's queue
AddTick ==
    /\ Len(ticks) < MaxTicks
    /\ \E price \in TickPrices, timestamp \in TickTimes :
          /\ \E b \in {add_tick(Builder(candles, current_candle), price, timestamp)} :
                /\ candles' = b.candles
                /\ current_candle' = b.current_candle
          /\ ticks' = Append(ticks, TickOf(price, timestamp))
    /\ UNCHANGED <<candidate, now, liveness, api_pages, primary, ui_page, discovery,
                   runVars, ledgerVars, paging, feedVars, market_page, queueVars>>

NextCandles == AddTick

SpecCandles == InitCandles /\ [][NextCandles]_vars

----------------------------------------------------------------------------
(* SpecPaging: one primary discovery call with given caps *)

\* events of a paged listing: a round, a round of another asset, a series
\* with a nested round and a ticker, and an event whose slug is null
PagingEvents ==
    {SimpleEvent(Slug("btc", "r1"), Iso(0), Num(900)),
     OtherAssetEvent, SeriesEvent, NullSlugEvent}

PagingListings ==
    {ServedPages(events, fill, err) :
        events \in BoundedSeq(PagingEvents, MaxListingEvents),
        fill \in 1..MaxPageEvents,
        err \in 0..2}

\* the max_candidates and max_pages arguments of the call
CandidateCaps == {1, 2, DefaultMaxCandidates}
PageCaps == {1, 2, DefaultMaxPages}

InitPaging ==
    /\ api_pages \in PagingListings
    /\ paging \in [max_candidates : CandidateCaps, max_pages : PageCaps]
    /\ now = 450
    /\ primary = NotCalled
    /\ candidate = NoCandidate
    /\ liveness = Pending
    /\ ui_page = NoPage
    /\ discovery = NotDiscovered
    /\ RunIdle
    /\ LedgerIdle
    /\ CandlesIdle
    /\ FeedIdle
    /\ ParseIdle
    /\ QueueIdle

\* one call of discover_15m_event_via_events_api(slug_prefix,
\* max_candidates, max_pages)
CallPaged ==
    /\ ~primary.done
    /\ primary' = [done |-> TRUE] @@
                    discover_15m_event_via_events_api(
                        api_pages, SlugPrefix("btc"),
                        paging.max_candidates, paging.max_pages, now)
    /\ UNCHANGED <<api_pages, now, liveVars, discoverVars, runVars, ledgerVars>>
    /\ UNCHANGED auxVars

NextPaging == CallPaged

SpecPaging == InitPaging /\ [][NextPaging]_vars

----------------------------------------------------------------------------
(* SpecFeed: the reconnect loop of the price feed, RTDSClient._connect *)

\* rtds.py:57  max_retries = 5
MaxRetries == 5

\* connections a behaviour may establish
MaxConnections == 2

backoff_linear(retries) == Min(2 * retries, 30)

\* rtds.py:96  wait_time = min(2 ** retry_count, 30)
backoff(retries) == Min(2 ^ retries, 30)

\* what an awaited call of the loop may raise: WebSocketException (rtds.py:93)
\* or another exception (rtds.py:103)
FailureKinds == {"websocket", "other"}

feedFrame ==
    <<candidate, now, liveness, api_pages, primary, ui_page, discovery,
      runVars, ledgerVars, candleVars, paging, market_page, queueVars>>

InitFeed ==
    /\ FeedIdle
    /\ now = 450
    /\ candidate = NoCandidate
    /\ liveness = Pending
    /\ api_pages = <<>>
    /\ primary = NotCalled
    /\ ui_page = NoPage
    /\ discovery = NotDiscovered
    /\ RunIdle
    /\ LedgerIdle
    /\ CandlesIdle
    /\ PagingIdle
    /\ ParseIdle
    /\ QueueIdle

\* rtds.py:93-105  the two except clauses of the loop, up to the sleep or
\* the break
OnException(kind) ==
    IF kind = "websocket"
    THEN /\ retry_count' = retry_count + 1
         /\ failures' = failures + 1
         /\ IF retry_count + 1 < MaxRetries /\ rtds_running
            THEN /\ wait_time' = backoff(retry_count + 1)
                 /\ feed_pc' = "sleeping"
            ELSE /\ feed_pc' = "exited"
                 /\ UNCHANGED wait_time
    ELSE /\ feed_pc' = "exited"
         /\ UNCHANGED <<retry_count, failures, wait_time>>

\* RTDSClient.start and the entry of _connect (rtds.py:31-40, 56-57)
StartFeed ==
    /\ feed_pc = "unstarted"
    /\ rtds_running' = TRUE
    /\ retry_count' = 0
    /\ feed_pc' = "test"
    /\ UNCHANGED <<wait_time, close_requested, failures, connections, feedFrame>>

\* rtds.py:59  while self.running and retry_count < max_retries
FeedLoopTest ==
    /\ feed_pc = "test"
    /\ feed_pc' = IF rtds_running /\ retry_count < MaxRetries
                  THEN "connecting" ELSE "exited"
    /\ UNCHANGED <<rtds_running, retry_count, wait_time, close_requested,
                   failures, connections, feedFrame>>

\* rtds.py:61-77  websockets.connect and the subscription: both succeed and
\* the counter is reset, or one of them raises
Connect ==
    /\ feed_pc = "connecting"
    /\ \/ /\ connections < MaxConnections
          /\ connections' = connections + 1
          /\ retry_count' = 0
          /\ failures' = 0
          /\ feed_pc' = "listening"
          /\ UNCHANGED wait_time
       \/ /\ \E kind \in FailureKinds : OnException(kind)
          /\ UNCHANGED connections
    /\ UNCHANGED <<rtds_running, close_requested, feedFrame>>

\* rtds.py:80-91  a message arrives: the listening ends when running is
\* false, otherwise the message is handled
Receive ==
    /\ feed_pc = "listening"
    /\ feed_pc' = IF ~rtds_running THEN "test" ELSE feed_pc
    /\ UNCHANGED <<rtds_running, retry_count, wait_time, close_requested,
                   failures, connections, feedFrame>>

\* rtds.py:80  the connection is closed, by the server or by the close that
\* stop() scheduled: the iteration over the messages ends
ConnectionClosed ==
    /\ feed_pc = "listening"
    /\ feed_pc' = "test"
    /\ close_requested' = FALSE
    /\ UNCHANGED <<rtds_running, retry_count, wait_time, failures, connections,
                   feedFrame>>

\* rtds.py:80  the iteration over the messages raises
ConnectionLost ==
    /\ feed_pc = "listening"
    /\ \E kind \in FailureKinds : OnException(kind)
    /\ close_requested' = FALSE
    /\ UNCHANGED <<rtds_running, connections, feedFrame>>

\* rtds.py:98  asyncio.sleep(wait_time) returns
SleepDone ==
    /\ feed_pc = "sleeping"
    /\ feed_pc' = "test"
    /\ UNCHANGED <<rtds_running, retry_count, wait_time, close_requested,
                   failures, connections, feedFrame>>

\* RTDSClient.stop (rtds.py:176-192): running is cleared and the close of
\* the connection held, if any, is scheduled
StopFeed ==
    /\ rtds_running
    /\ rtds_running' = FALSE
    /\ close_requested' = (feed_pc = "listening")
    /\ UNCHANGED <<feed_pc, retry_count, wait_time, failures, connections,
                   feedFrame>>

NextFeed ==
    \/ StartFeed
    \/ FeedLoopTest
    \/ Connect
    \/ Receive
    \/ ConnectionClosed
    \/ ConnectionLost
    \/ SleepDone
    \/ StopFeed

\* the event loop goes on running the coroutine: the loop test, a connection
\* attempt (which succeeds, fails or times out), the end of a sleep and a
\* scheduled close are eventually carried out; a subscribed feed goes on
\* publishing prices
SpecFeed ==
    /\ InitFeed
    /\ [][NextFeed]_vars
    /\ WF_vars(StartFeed)
    /\ WF_vars(FeedLoopTest)
    /\ WF_vars(Connect)
    /\ WF_vars(SleepDone)
    /\ WF_vars(close_requested /\ ConnectionClosed)
    /\ WF_vars(Receive)

----------------------------------------------------------------------------
(* Properties of the stake ledger *)

\* the result an update_after_result call has just finished recording
LastRecorded == results[Len(results)]

UpdateStarts(result) ==
    /\ ~pending.active
    /\ pending'.active
    /\ pending'.result = result

\* C12: on a WIN that does not reach the streak cap (win_streak + 1 <
\* max_win_streak) the next stake is min(2 * current_stake, max_stake) and
\* win_streak increases by exactly 1.
WinDoublesBelowCap ==
    [][ (UpdateStarts("W") /\ state.win_streak + 1 < MaxWinStreak)
        => /\ state'.current_stake = Min(2 * state.current_stake, MaxStake)
           /\ state'.win_streak = state.win_streak + 1
           /\ persisted'.current_stake = state'.current_stake
           /\ persisted'.win_streak = state'.win_streak ]_vars

\* two consecutive WINs below the cap: the first doubled the base stake, the
\* second would have exceeded max_stake and was clamped to it
WinDoublesWitness ==
    /\ ~pending.active
    /\ Len(results) = 2
    /\ results[1].result = "W"
    /\ results[2].result = "W"
    /\ 2 * (2 * BaseStake) > MaxStake
    /\ state.current_stake = MaxStake
    /\ state.win_streak = 2

\* C13: a single LOSS passed to update_after_result sets current_stake to
\* base_stake and win_streak to 0, whatever the stake and streak before.
LossResets ==
    [][ UpdateStarts("L")
        => /\ state'.current_stake = BaseStake
           /\ state'.win_streak = 0
           /\ persisted'.current_stake = BaseStake
           /\ persisted'.win_streak = 0 ]_vars

\* a LOSS recorded while the streak was held at the cap, fully processed
LossAtCapWitness ==
    /\ ~pending.active
    /\ Len(results) = MaxWinStreak + 1
    /\ \A i \in 1..MaxWinStreak : results[i].result = "W"
    /\ LastRecorded.result = "L"
    /\ state.win_streak = 0
    /\ state.current_stake = BaseStake

\* a LOSS being processed from a raised stake
LossFromRaisedStake ==
    /\ pending.active
    /\ pending.result = "L"
    /\ pending.before.current_stake > BaseStake
    /\ pending.before.win_streak > 0

\* C14: current_stake and win_streak change only through update_after_result
\* with a W or L result; a SKIP result and every other step leave both
\* unchanged.
StakeChangesOnlyOnWinOrLoss ==
    [][ (\/ state'.current_stake # state.current_stake
         \/ state'.win_streak # state.win_streak
         \/ persisted'.current_stake # persisted.current_stake
         \/ persisted'.win_streak # persisted.win_streak)
        => (UpdateStarts("W") \/ UpdateStarts("L")) ]_vars

\* a SKIP recorded while the stake was raised and a streak running
SkipKeepsStakeWitness ==
    /\ ~pending.active
    /\ Len(results) >= 2
    /\ LastRecorded.result = "S"
    /\ state.current_stake > BaseStake
    /\ state.win_streak > 0

\* the three rejection conditions of can_trade on the ledger in memory
TradeLimitReached == state.daily_stats.trades_count >= DailyMaxTrades

LossLimitExceeded == state.daily_stats.total_profit_loss < -DailyMaxLoss

StakeExceedsMax == state.current_stake > MaxStake

\* C15: can_trade rejects if and only if trades_count >= daily_max_trades, or
\* total_pnl < -daily_max_loss, or current_stake > max_stake, checked in that
\* order with one reason each, answers (true, OK) otherwise, and never
\* modifies the ledger.
CanTradeIsPureGuard ==
    /\ [](verdict # NoVerdict =>
            /\ verdict.ok = ~(TradeLimitReached \/ LossLimitExceeded \/ StakeExceedsMax)
            /\ (verdict.ok <=> verdict.reason = "OK")
            /\ (TradeLimitReached => verdict.reason = "Daily trade limit reached")
            /\ (~TradeLimitReached /\ LossLimitExceeded
                    => verdict.reason = "Daily loss limit exceeded")
            /\ (~TradeLimitReached /\ ~LossLimitExceeded /\ StakeExceedsMax
                    => verdict.reason = "Stake exceeds maximum"))
    /\ [][state' = state /\ persisted' = persisted]_vars

\* can_trade has rejected a ledger for its stake alone
StakeRejectedWitness ==
    /\ verdict = [ok |-> FALSE, reason |-> "Stake exceeds maximum"]
    /\ ~TradeLimitReached
    /\ ~LossLimitExceeded
    /\ state.daily_stats.total_profit_loss = -DailyMaxLoss
    /\ state.current_stake = MaxStake + 1

\* can_trade has accepted a ledger at every limit's last accepted value
AcceptedAtLimitsWitness ==
    /\ verdict = [ok |-> TRUE, reason |-> "OK"]
    /\ state.current_stake = MaxStake
    /\ state.daily_stats.total_profit_loss = -DailyMaxLoss
    /\ state.daily_stats.trades_count = DailyMaxTrades - 1

\* how many of the recorded results are in the given set
RECURSIVE CountOf(_, _)
CountOf(recorded, wanted) ==
    IF recorded = <<>> THEN 0
    ELSE (IF Head(recorded).result \in wanted THEN 1 ELSE 0)
         + CountOf(Tail(recorded), wanted)

\* the stakes won less the stakes lost over the recorded results
RECURSIVE NetOf(_)
NetOf(recorded) ==
    IF recorded = <<>> THEN 0
    ELSE (IF Head(recorded).result = "W" THEN Head(recorded).stake_used
          ELSE IF Head(recorded).result = "L" THEN -Head(recorded).stake_used
          ELSE 0)
         + NetOf(Tail(recorded))

\* C16: update_after_result changes the daily total PNL by +stake_used on W,
\* -stake_used on L and 0 on S, increments wins only on W, losses only on L
\* and trades_count only on W or L, so that after any sequence of results
\* within a day the counters equal the sums over that sequence.
CountersAreSums ==
    ~pending.active =>
        /\ state.daily_stats.trades_count = CountOf(results, {"W", "L"})
        /\ state.daily_stats.wins = CountOf(results, {"W"})
        /\ state.daily_stats.losses = CountOf(results, {"L"})
        /\ state.daily_stats.total_profit_loss = NetOf(results)
        /\ persisted.daily_stats = state.daily_stats

\* a WIN, a LOSS and a SKIP of different stakes recorded within one day
CountersWitness ==
    /\ ~pending.active
    /\ Len(results) = 3
    /\ CountOf(results, {"W"}) = 1
    /\ CountOf(results, {"L"}) = 1
    /\ CountOf(results, {"S"}) = 1
    /\ \E i, j \in 1..3 : /\ results[i].result = "W" /\ results[i].stake_used = 5
                          /\ results[j].result = "L" /\ results[j].stake_used = 2
    /\ state.daily_stats.total_profit_loss = 3
    /\ state.daily_stats.trades_count = 2

\* C18: each update_after_result is persisted atomically: whenever the
\* process could stop, state.json holds either the complete state before the
\* result or the complete state after it, never a mixture.
UpdatePersistedAtomically ==
    pending.active =>
        \/ persisted = pending.before
        \/ persisted = update_after_result(pending.before, pending.result,
                                           pending.stake_used)

----------------------------------------------------------------------------
(* Properties of the ledger within a run *)

\* C17: daily counters cover only the current UTC day: whenever the UTC date
\* differs from daily_stats.date the counters are reset before can_trade is
\* evaluated, also when the date changes during a running session; so every
\* can_trade call of a trading cycle reads statistics dated today.
CanTradeReadsTodaysCounters ==
    [][ (pc = "limits" /\ pc' # "limits")
        => state.daily_stats.date = UtcDate(now) ]_vars

----------------------------------------------------------------------------
(* Properties of the trading cycle's validation and decision *)

\* positions of the running cycle up to its return
InCycle == pc \in {"window", "limits", "prepare", "confirm", "execute", "end", "failed"}

\* the cycle log holds an entry of the step
Logged(step) == \E i \in DOMAIN calls : calls[i].step = step

\* 0.5 <= current_price / price_to_beat <= 2.0, the ratio being 0 when
\* price_to_beat <= 0
RatioAccepted ==
    /\ price_to_beat > 0
    /\ price_to_beat <= 2 * current_price
    /\ current_price <= 2 * price_to_beat

\* C19: the trading cycle proceeds past the cross-validation if and only if
\* 0.5 <= current_price / price_to_beat <= 2.0 (ratio 0 when price_to_beat <=
\* 0), both boundaries accepted; otherwise it returns before any decision is
\* made or logged and before any order is prepared.
CrossValidationGate ==
    (InCycle /\ Logged("cross_validation")) =>
        /\ PassedAt("cross_validation") # {} <=> RatioAccepted
        /\ RatioAccepted => (pc = "window" \/ Logged("should_trade"))
        /\ ~RatioAccepted =>
              /\ pc = "end"
              /\ calls[Len(calls)] = Call("cross_validation", "fail")
              /\ ~Logged("make_decision")
              /\ ~Logged("log_decision")
              /\ ~Logged("prepare_trade")
              /\ decision_result = NoDecision

\* a price at exactly half the price to beat was accepted and the cycle went
\* on to a decision and a prepared order
BoundaryAcceptedWitness ==
    /\ InCycle
    /\ price_to_beat = 2 * current_price
    /\ PassedAt("cross_validation") # {}
    /\ Logged("log_decision")
    /\ PassedAt("prepare_trade") # {}
    /\ decision_result # NoDecision

\* a price just under half the price to beat ended the cycle
BelowBoundaryRejectedWitness ==
    /\ pc = "end"
    /\ Logged("cross_validation")
    /\ price_to_beat = 2 * current_price + 10
    /\ ~Logged("should_trade")

\* the gap the decision is about
Gap == price_to_beat - current_price

\* an indicator of the call is a number
Known(x) == x.kind = "num"

\* Rule A's condition: time pressure and |gap / ATR| > 0.8, the quotient
\* being 0 when the ATR is unknown or not positive
RuleAFires ==
    /\ seconds_left <= TimePressureSeconds
    /\ "atr" \in DOMAIN indicators
    /\ Known(indicators.atr)
    /\ indicators.atr.v > 0
    /\ 5 * Abs(Gap) > 4 * indicators.atr.v

\* EMA-fast, EMA-slow and the 3-minute return are all known
TrendKnown ==
    /\ Known(indicators.ema_fast)
    /\ Known(indicators.ema_slow)
    /\ "return_3m" \in DOMAIN indicators.returns
    /\ Known(indicators.returns.return_3m)

\* the close of the last candle, the current price when there is none
CloseOf == IF "close" \in DOMAIN indicators THEN indicators.close.v ELSE current_price

\* Rule B's two conditions
DowntrendAgainstGap ==
    /\ TrendKnown
    /\ indicators.ema_fast.v < indicators.ema_slow.v
    /\ indicators.returns.return_3m.v < 0
    /\ CloseOf < indicators.ema_fast.v
    /\ Gap > 0

UptrendAgainstGap ==
    /\ TrendKnown
    /\ indicators.ema_fast.v > indicators.ema_slow.v
    /\ indicators.returns.return_3m.v > 0
    /\ CloseOf > indicators.ema_fast.v
    /\ Gap < 0

\* C20: make_decision is a deterministic first-match cascade that always
\* returns UP or DOWN: Rule A (time pressure and a large gap) gives DOWN when
\* gap > 0 and UP otherwise; else Rule B, only with EMA-fast, EMA-slow and the
\* 3-minute return all known, gives DOWN for a downtrend with gap > 0 and UP
\* for an uptrend with gap < 0; else Rule C gives DOWN iff current_price <
\* price_to_beat and UP otherwise; exactly one rule contributes to the
\* reasoning.
DecisionCascade ==
    decision_result # NoDecision =>
        /\ decision_result.decision \in {"UP", "DOWN"}
        /\ Len(decision_result.reasoning) = 1
        /\ decision_result.gap = Gap
        /\ IF RuleAFires
           THEN /\ decision_result.reasoning = <<"time_pressure">>
                /\ decision_result.decision = IF Gap > 0 THEN "DOWN" ELSE "UP"
           ELSE IF DowntrendAgainstGap
           THEN /\ decision_result.reasoning = <<"trend">>
                /\ decision_result.decision = "DOWN"
           ELSE IF UptrendAgainstGap
           THEN /\ decision_result.reasoning = <<"trend">>
                /\ decision_result.decision = "UP"
           ELSE /\ decision_result.reasoning = <<"default">>
                /\ decision_result.decision =
                       IF current_price < price_to_beat THEN "DOWN" ELSE "UP"

\* Rule A decided UP although the trend pointed the same way as Rule B's
\* uptrend case would have it, so only the first match spoke
RuleAFirstWitness ==
    /\ decision_result # NoDecision
    /\ RuleAFires
    /\ UptrendAgainstGap
    /\ decision_result.decision = "UP"
    /\ decision_result.reasoning = <<"time_pressure">>

\* Rule B decided DOWN outside time pressure
RuleBWitness ==
    /\ decision_result # NoDecision
    /\ ~RuleAFires
    /\ seconds_left > TimePressureSeconds
    /\ DowntrendAgainstGap
    /\ decision_result.decision = "DOWN"

\* Rule C decided UP on equal prices, with a 3-minute return that is NaN
RuleCWitness ==
    /\ decision_result # NoDecision
    /\ Gap = 0
    /\ "return_3m" \in DOMAIN indicators.returns
    /\ indicators.returns.return_3m = NaN
    /\ decision_result.decision = "UP"
    /\ decision_result.reasoning = <<"default">>

----------------------------------------------------------------------------
(* Properties of the candle builder *)

\* every candle the builder holds: the history, then the candle in progress
AllCandles == IF current_candle = None THEN candles ELSE Append(candles, current_candle)

\* positions of the ticks whose timestamp rounds to the interval
TicksOf(interval) ==
    {i \in DOMAIN ticks : _round_to_interval(ticks[i].timestamp) = interval}

\* the candle summarises exactly the ticks at the given positions
Summarises(c, at) ==
    /\ at # {}
    /\ c.open = Float(ticks[CHOOSE i \in at : \A j \in at : i <= j].price)
    /\ c.close = Float(ticks[CHOOSE i \in at : \A j \in at : i >= j].price)
    /\ \E i \in at : c.high = Float(ticks[i].price)
    /\ \E i \in at : c.low = Float(ticks[i].price)
    /\ \A i \in at : c.low.v <= ticks[i].price /\ ticks[i].price <= c.high.v
    /\ c.volume = Cardinality(at)

\* the ticks arrived in the order of their intervals
TicksInOrder ==
    \A i, j \in DOMAIN ticks :
        i < j => _round_to_interval(ticks[i].timestamp)
                    <= _round_to_interval(ticks[j].timestamp)

\* C21: for all tick sequences each candle for an interval has open equal to
\* the first price of that interval, high and low the maximum and minimum
\* of all prices seen in it, close its last price and volume the number of
\* its ticks.
CandleCoversInterval ==
    \A k \in DOMAIN AllCandles :
        Summarises(AllCandles[k], TicksOf(AllCandles[k].timestamp))

\* the same for ticks that arrive in the order of their intervals
CandleCoversIntervalInOrder == TicksInOrder => CandleCoversInterval

\* the candle has absorbed a tick and its four prices are set and ordered
WellFormed(c) ==
    /\ c.volume >= 1
    /\ is_complete(c)
    /\ c.low.v <= c.open.v /\ c.open.v <= c.high.v
    /\ c.low.v <= c.close.v /\ c.close.v <= c.high.v

\* s without its first k elements
DropFirst(s, k) == SubSeq(s, k + 1, Len(s))

\* C22: every candle in the completed history, and every candle get_candles
\* returns, has absorbed at least one tick and has all four OHLC fields set
\* with low <= open <= high and low <= close <= high; a candle is never
\* modified after it has been moved into the history.
HistoryCandlesComplete ==
    /\ [](/\ \A k \in DOMAIN candles : WellFormed(candles[k])
          /\ get_candles(Builder(candles, current_candle), 0) = candles)
    /\ [][\E k \in 0..Len(candles) :
             \/ candles' = DropFirst(candles, k)
             \/ candles' = DropFirst(Append(candles, current_candle), k)]_vars

\* the history holds a candle of three ticks with low = close < open < high
HistoryCandleWitness ==
    \E k \in DOMAIN candles :
        /\ candles[k].volume = 3
        /\ candles[k].low.v < candles[k].open.v
        /\ candles[k].open.v < candles[k].high.v
        /\ candles[k].close = candles[k].low

\* positions of the ticks that opened a candle: the first tick, and every
\* tick whose interval differs from that of the tick before it
Openings ==
    {i \in DOMAIN ticks :
        i = 1 \/ _round_to_interval(ticks[i].timestamp)
                    # _round_to_interval(ticks[i - 1].timestamp)}

\* the n-th of them
Opening(n) == CHOOSE i \in Openings : Cardinality({j \in Openings : j <= i}) = n

\* candles completed so far: every opened candle but the one in progress
Completed == IF ticks = <<>> THEN 0 ELSE Cardinality(Openings) - 1

\* C28: after every add_tick the completed history holds at most max_candles
\* candles; when a newly completed candle would exceed the cap the oldest are
\* dropped and the most recent max_candles are kept in their original order.
HistoryBounded ==
    /\ Len(candles) <= MaxCandles
    /\ Len(candles) = Min(Completed, MaxCandles)
    /\ \A k \in DOMAIN candles :
          LET opened == Opening(Completed - Len(candles) + k)
          IN  /\ candles[k].timestamp = _round_to_interval(ticks[opened].timestamp)
              /\ candles[k].open = Float(ticks[opened].price)

\* more candles were completed than the history keeps, and the oldest is gone
HistoryTrimmedWitness ==
    /\ Completed = MaxCandles + 1
    /\ Len(candles) = MaxCandles
    /\ \A k \in DOMAIN candles :
          candles[k].timestamp # _round_to_interval(ticks[1].timestamp)

\* C29: for any tick sequence, ragged arrival included, get_candles returns
\* the completed candles in strictly increasing interval_start order, no
\* interval twice, and get_candles(N) returns the N most recent of them.
CandlesStrictlyIncreasing ==
    LET b == Builder(candles, current_candle)
        view == get_candles(b, 0)
    IN  /\ \A i, j \in DOMAIN view :
              i < j => view[i].timestamp < view[j].timestamp
        /\ \A n \in 1..MaxCandles :
              get_candles(b, n) = LastSlice(view, n)

\* the same view when the ticks arrived in time order
CandlesIncreasingInOrder == TicksInOrder => CandlesStrictlyIncreasing

----------------------------------------------------------------------------
(* Properties of the win streak *)

\* a recorded WIN that brings the streak to max_win_streak and resets the
\* stake to base
CapTriggeredReset(before, result) ==
    /\ result = "W"
    /\ before.win_streak + 1 >= MaxWinStreak

\* the consecutive WIN results since the last LOSS or cap-triggered reset,
\* one result later; after a cap-triggered reset the count starts again, at
\* most counting the resetting WIN itself
WinsSinceReset(before, result) ==
    IF CapTriggeredReset(before, result) THEN {0, 1}
    ELSE IF result = "W" THEN {before.win_streak + 1}
    ELSE IF result = "L" THEN {0}
    ELSE {before.win_streak}

\* C26: win_streak always equals the number of consecutive WIN results
\* recorded since the last LOSS or the last cap-triggered reset.
WinStreakCountsSinceReset ==
    [][(~pending.active /\ pending'.active)
         => state'.win_streak \in WinsSinceReset(state, pending'.result)]_vars

\* the same count while no WIN has reached the cap
WinStreakCountsBelowCap ==
    [][(~pending.active /\ pending'.active
            /\ ~CapTriggeredReset(state, pending'.result))
         => state'.win_streak \in WinsSinceReset(state, pending'.result)]_vars

----------------------------------------------------------------------------
(* Properties of the run loop *)

\* the orders executed in the current iteration
OrdersExecuted ==
    {i \in DOMAIN calls : calls[i] = Call("execute_trade", "pass")}

Step ==
    \/ DiscoverMarketPrimary
    \/ DiscoverMarketFallback
    \/ OpenSession
    \/ LoopTest
    \/ CheckForNewMarket
    \/ CycleValidate
    \/ CycleWindow
    \/ CycleLimits
    \/ CyclePrepare
    \/ CycleConfirm
    \/ CycleExecute
    \/ EndCycle
    \/ HandleException
    \/ Cleanup

\* a watch-mode run
InitWatch ==
    /\ Init
    /\ watch_mode

NextWatch ==
    \/ Signal
    \/ Step

SpecWatch == InitWatch /\ [][NextWatch]_vars /\ WF_vars(Step)

\* the runs of either mode at one instant, the orchestrator's steps weakly
\* fair (a pending human prompt returns)
SpecTeardown == Init /\ [][NextWatch]_vars /\ WF_vars(Step)

\* the cycle of this iteration was aborted by a validation failure or by an
\* exception
Aborted ==
    \/ pc = "failed"
    \/ /\ pc = "end"
       /\ \E i \in DOMAIN calls :
             calls[i] \in {Call("get_latest_price", "fail"),
                           Call("cross_validation", "fail"),
                           Call("should_trade", "fail")}

\* C27: in watch mode a validation failure (no feed price, cross-validation
\* rejection, unsuitable time window) or an exception inside a trading cycle
\* aborts only that cycle: the run loop stays alive and a later iteration
\* re-runs discovery and a new cycle, as long as no shutdown was requested.
WatchModeSurvivesAbort ==
    /\ [][(watch_mode /\ pc \in {"cycle", "window", "confirm", "check"}
              /\ pc' \in {"end", "failed"})
             => running' = running]_vars
    /\ [][(watch_mode /\ Aborted /\ pc' # pc)
             => (pc' = "loop" /\ running' = running)]_vars
    /\ [][(watch_mode /\ pc = "loop" /\ running /\ pc' # pc)
             => (pc' = "check" /\ iteration' = iteration + 1)]_vars
    /\ [][(pc = "check" /\ pc' # pc)
             => (rediscovery'.called /\ pc' \in {"cycle", "failed"})]_vars
    /\ \A n \in 1..(MaxIterations - 1) :
          (watch_mode /\ Aborted /\ iteration = n)
             ~> (\/ ~running
                 \/ iteration = n + 1 /\ rediscovery.called
                                      /\ pc \in {"cycle", "failed"})

\* the cycle of the first iteration was rejected by the cross-validation and
\* the run is back at the loop test, no shutdown having been requested
WatchModeSurvivesWitness ==
    /\ watch_mode
    /\ running
    /\ iteration = 1
    /\ pc = "loop"
    /\ \E i \in DOMAIN calls : calls[i] = Call("cross_validation", "fail")

----------------------------------------------------------------------------
(* Properties of the pagination *)

\* the response to the i-th request of the call
PageAt(i) == IF i <= Len(api_pages) THEN api_pages[i] ELSE OkPage(<<>>)

PageEmpty(i) == PageAt(i).kind = "ok" /\ PageAt(i).events = <<>>

\* the i-th request fails, or its page cannot be read
PageFails(i) ==
    \/ PageAt(i).kind = "error"
    \/ \E k \in DOMAIN PageAt(i).events : PageAt(i).events[k].slug = NullSlug

\* candidates on the pages 1..i, every page added in full
RECURSIVE Accumulated(_)
Accumulated(i) ==
    IF i = 0 THEN 0
    ELSE Accumulated(i - 1)
         + Len(_extract_candidates_from_events(PageAt(i).events,
                                               SlugPrefix("btc")).value)

CapReached(i) == ~PageFails(i) /\ Accumulated(i) >= paging.max_candidates

\* the offsets are 0, limit, 2*limit, ... and no more than max_pages of them
OffsetsInSteps ==
    /\ Len(primary.offsets) <= paging.max_pages
    /\ Len(primary.offsets) >= 1
    /\ \A i \in DOMAIN primary.offsets : primary.offsets[i] = (i - 1) * Limit

\* C24 (as amended): the pagination fetches at most max_pages pages, at
\* offsets 0, limit, 2*limit, ..., and stops earlier exactly when a page is
\* empty, when the accumulated candidate count has reached max_candidates
\* after the page was added in full, or when the request or the reading of
\* the page raises (the call then yields nothing).
PaginationTerminates ==
    primary.done =>
        LET n == Len(primary.offsets) IN
        /\ OffsetsInSteps
        /\ \A i \in 1..(n - 1) :
              ~PageEmpty(i) /\ ~CapReached(i) /\ ~PageFails(i)
        /\ n < paging.max_pages =>
              (PageEmpty(n) \/ CapReached(n) \/ PageFails(n))
        /\ primary.raised <=> PageFails(n)
        /\ primary.raised => primary.selected = <<>>

\* C24 witness: the cap was passed, not met, by the first page, which was
\* added in full, and no second page was fetched though max_pages allowed it
PaginationCapWitness ==
    /\ primary.done
    /\ primary.offsets = <<0>>
    /\ paging.max_pages > 1
    /\ Len(api_pages) > 1
    /\ Len(primary.all_candidates) > paging.max_candidates

\* C24 as stated: it stops earlier exactly when a page is empty or when the
\* accumulated candidate count has reached max_candidates.
PaginationStopsOnEmptyOrCap ==
    primary.done =>
        LET n == Len(primary.offsets) IN
        /\ OffsetsInSteps
        /\ \A i \in 1..(n - 1) : ~PageEmpty(i) /\ ~CapReached(i)
        /\ n < paging.max_pages => (PageEmpty(n) \/ CapReached(n))

----------------------------------------------------------------------------
(* Properties of the legacy listing *)

\* the first request to the events endpoint fails
EventsEndpointUnreachable == api_pages # <<>> /\ api_pages[1].kind = "error"

\* C25: when the events endpoint is unreachable, discovery consults the
\* legacy markets listing (find_active_market) as a last-resort level before
\* it reports failure.
LegacyListingConsulted ==
    (discovery.called /\ EventsEndpointUnreachable /\ discovery.result = <<>>)
        => Invoked("LEGACY_FALLBACK")

\* the levels a call goes through are the events listing and, with a browser
\* page, the aggregator page
OnlyTwoLevels ==
    discovery.called =>
        \A i \in DOMAIN discovery.levels :
            discovery.levels[i] \in {"EVENTS_PRIMARY", "UI_FALLBACK"}

----------------------------------------------------------------------------
(* Properties of the feed's reconnect loop *)

----------------------------------------------------------------------------
(* Properties of the stake and the streak together *)

\* C36: starting from current_stake = base_stake and win_streak = 0, after
\* any sequence of W/L/S results: if win_streak < max_win_streak then
\* current_stake = min(base_stake * 2^win_streak, max_stake); if win_streak =
\* max_win_streak then current_stake = base_stake; hence base_stake <=
\* current_stake <= max_stake always.
StakeFollowsStreak ==
    /\ state.win_streak \in 0..MaxWinStreak
    /\ state.win_streak < MaxWinStreak =>
          state.current_stake = Min(BaseStake * 2 ^ state.win_streak, MaxStake)
    /\ state.win_streak = MaxWinStreak => state.current_stake = BaseStake
    /\ BaseStake <= state.current_stake
    /\ state.current_stake <= MaxStake

\* C36 witness: two wins in a row, the second doubling cut down to max_stake
StakeFollowsStreakWitness ==
    /\ state.win_streak = 2
    /\ state.current_stake = MaxStake
    /\ BaseStake * 4 > MaxStake
    /\ Len(results) >= 1
    /\ pending.active

----------------------------------------------------------------------------
(* Properties of the decision's direction *)

\* C37: the direction returned by make_decision depends only on the sign of
\* the gap: the decision is DOWN if and only if current_price <
\* price_to_beat; two calls that differ only in seconds_left or in the
\* indicators return the same decision, differing at most in the reasoning
\* and the reported gap_atr.
DirectionIsSignOfGap ==
    decision_result # NoDecision =>
        /\ decision_result.decision \in {"UP", "DOWN"}
        /\ decision_result.decision = "DOWN" <=> current_price < price_to_beat
        /\ \A secs \in DecisionSeconds, ind \in DecisionIndicators :
              LET other == make_decision(current_price, price_to_beat, secs, ind)
              IN  /\ other.decision = decision_result.decision
                  /\ other.gap = decision_result.gap

\* C37 witness: the trend rule decided, and with other indicators and time
\* left the time-pressure rule and the default rule decide the same way
DirectionWitness ==
    /\ decision_result.reasoning = <<"trend">>
    /\ \E secs \in DecisionSeconds, ind \in DecisionIndicators :
          make_decision(current_price, price_to_beat, secs, ind).reasoning
              = <<"time_pressure">>
    /\ \E secs \in DecisionSeconds, ind \in DecisionIndicators :
          make_decision(current_price, price_to_beat, secs, ind).reasoning
              = <<"default">>

----------------------------------------------------------------------------
(* Properties of the daily trade limit within a run *)

TradesCount == state.daily_stats.trades_count

\* C38: within a run daily_stats.trades_count never exceeds daily_max_trades:
\* every order execution is preceded in the same cycle by a can_trade check
\* that rejects when trades_count >= daily_max_trades, and each executed
\* order raises trades_count by at most 1.
TradesWithinDailyLimit ==
    /\ [](TradesCount <= DailyMaxTrades)
    /\ [](pc \in {"prepare", "confirm", "execute"} =>
             /\ \E i \in DOMAIN calls : calls[i] = Call("can_trade", "pass")
             /\ TradesCount < DailyMaxTrades
             /\ \A result \in Results :
                   update_after_result(state, result, get_current_stake(state))
                       .daily_stats.trades_count \in {TradesCount, TradesCount + 1})
    /\ [][(pc = "limits" /\ TradesCount >= DailyMaxTrades /\ pc' # pc)
             => pc' = "end"]_vars
    /\ [][pc = "execute" =>
             state'.daily_stats.trades_count \in {TradesCount, TradesCount + 1}]_vars

\* C38 witness: a cycle stopped at can_trade with the day's trades at the
\* limit
TradesAtLimitWitness ==
    /\ TradesCount = DailyMaxTrades
    /\ pc = "end"
    /\ \E i \in DOMAIN calls : calls[i] = Call("can_trade", "fail")

----------------------------------------------------------------------------
(* Properties of a can_trade rejection *)

\* can_trade rejected in the cycle of the current iteration
Rejected == \E i \in DOMAIN calls : calls[i] = Call("can_trade", "fail")

\* C40: when can_trade rejects inside a trading cycle the orchestrator sets
\* running to false, so the run loop ends even in watch mode: after a
\* can_trade rejection no further discovery, trading cycle or order
\* execution happens in that run.
RejectionEndsRun ==
    /\ [](Rejected =>
             /\ ~running
             /\ pc \in {"end", "loop", "cleanup", "done"}
             /\ \A i \in DOMAIN calls :
                   calls[i].step \notin {"prepare_trade", "execute_trade"})
    /\ [][Rejected =>
             /\ Rejected'
             /\ calls' = calls
             /\ iteration' = iteration
             /\ discover_calls' = discover_calls
             /\ rediscovery' = rediscovery
             /\ state' = state]_vars
    /\ Rejected ~> (pc = "done")

\* C40 witness: a watch-mode run that ended after can_trade rejected in its
\* first iteration
RejectionEndsRunWitness ==
    /\ watch_mode
    /\ Rejected
    /\ iteration = 1
    /\ pc = "done"

----------------------------------------------------------------------------
(* Properties of the shutdown signal *)

\* C32: cancellation is checked between cycle steps: once the shutdown
\* signal has set running to false the orchestrator performs no further step
\* of the in-progress trading cycle, in particular no order is prepared or
\* executed after the signal, and starts no new cycle.
NoCycleStepAfterSignal ==
    [][~running => (calls' = calls /\ iteration' = iteration)]_vars

\* with running false no new iteration, hence no new cycle, is begun
NoNewCycleAfterSignal ==
    [][~running => iteration' = iteration]_vars

----------------------------------------------------------------------------
(* Properties of the teardown *)

\* run() is on its way out: the run is single-shot, can_trade rejected, the
\* shutdown signal arrived, or the finally clause has been reached (by the
\* return after a failed discovery, a break or an exception)
OnExitPath ==
    \/ ~watch_mode
    \/ Rejected
    \/ ~running
    \/ pc = "cleanup"

\* C33: on every exit path of run() (discovery failure, single-shot
\* completion, can_trade rejection, shutdown signal, exception) _cleanup
\* eventually runs, stopping the feed client and closing the browser,
\* provided pending human prompts return.
TeardownAlwaysHappens ==
    /\ [](pc = "done" => (~feed /\ ~browser))
    /\ [][pc' = "done" => pc \in {"cleanup", "done"}]_vars
    /\ OnExitPath ~> (pc = "done")

\* C33 witness: a watch-mode run torn down after a shutdown signal that
\* arrived with the feed and the browser started and a cycle under way
TeardownWitness ==
    /\ pc = "done"
    /\ watch_mode
    /\ ~running
    /\ ~Rejected
    /\ iteration >= 1
    /\ navigations # <<>>
    /\ ~feed
    /\ ~browser

----------------------------------------------------------------------------
(* Properties of the stored market details *)

\* C39: whenever current_market_details is set it describes current_slug:
\* after a watch-mode re-discovery switches current_slug to a new round the
\* stored details are those fetched for the new slug, never those of the
\* previous round.
DetailsDescribeCurrentSlug ==
    current_market_details # NullSlug => current_market_details = current_slug

\* the details describe the market found at start-up for as long as no
\* re-discovery has switched markets
DetailsDescribeStartupSlug ==
    [][(current_market_details # NullSlug /\ current_slug' = current_slug)
         => current_market_details' = current_market_details]_vars

----------------------------------------------------------------------------
(* Market information read from the page *)

\* SpecParse: numbers the text around the label holds
MaxMatches == 2

\* selectors.py:93  `asset_lower == 'btc' and parsed_value <= 10000`
BtcFloor == 10000
\* selectors.py:99  `asset_lower == 'eth' and parsed_value <= 500`
EthFloor == 500

\* the asset argument left at its default, None (selectors.py:14)
NoAsset == "None"

\* selectors.py:58-76  the first number of the label's context that is not
\* below 10; None when there is none or when the label is not on the page
RECURSIVE first_price(_)
first_price(matches) ==
    IF matches = <<>> THEN None
    ELSE IF Head(matches) < 10 THEN first_price(Tail(matches))
    ELSE Float(Head(matches))

\* selectors.py:90-103  the sanity check per asset, made when an asset is
\* passed
asset_check(asset, parsed_value) ==
    IF asset # NoAsset
    THEN IF asset = "btc" /\ parsed_value <= BtcFloor THEN FALSE
         ELSE IF asset = "eth" /\ parsed_value <= EthFloor THEN FALSE
         ELSE TRUE
    ELSE TRUE

\* Selectors.find_price_to_beat(page, timeout, asset), selectors.py:14-115;
\* prices are whole numbers, so that no value lies between 0 and 1
find_price_to_beat(matches, asset) ==
    LET parsed_value == first_price(matches)
    IN  IF parsed_value = None THEN None
        ELSE IF ~asset_check(asset, parsed_value.v) THEN None
        ELSE IF 0 < parsed_value.v /\ parsed_value.v < 1 THEN None
        ELSE parsed_value

\* the pair (None, None) of parse_market_info and what it returns otherwise
NoInfo == [price_to_beat |-> None, seconds_left |-> None]

\* OneClickUI.parse_market_info(), ui_oneclick.py:68-83: the price is looked
\* up without an asset; countdown is what Selectors.find_countdown returns
parse_market_info(shown) ==
    LET to_beat == find_price_to_beat(shown.matches, NoAsset)
        secs == shown.countdown
    IN  IF to_beat = None \/ secs = None
        THEN NoInfo
        ELSE [price_to_beat |-> to_beat, seconds_left |-> secs]

\* numbers the page may show next to the label: an odds value, prices on
\* both sides of the BTC floor
PageNumbers == {5, 9500, BtcFloor, BtcFloor + 1, 50000}
Countdowns == {None, Float(60), Float(600)}
\* what the user types in, and what the feed reports
ManualPrices == {60000}
ManualSeconds == {300}
FeedPrices == {18000, 60000}

RECURSIVE SeqsUpTo(_, _)
SeqsUpTo(S, n) ==
    IF n = 0 THEN {<<>>}
    ELSE LET shorter == SeqsUpTo(S, n - 1)
         IN  shorter \cup {Append(q, x) : q \in shorter, x \in S}

\* _trading_cycle of a BTC market is entered with some market page shown
InitParse ==
    /\ market_page \in [matches : SeqsUpTo(PageNumbers, MaxMatches),
                        countdown : Countdowns]
    /\ pc = "cycle"
    /\ running = TRUE
    /\ watch_mode = FALSE
    /\ current_slug = NullSlug
    /\ current_market_url = NullSlug
    /\ current_market_details = NullSlug
    /\ browser = TRUE
    /\ page_url = <<>>
    /\ feed = TRUE
    /\ navigations = <<>>
    /\ iteration = 1
    /\ calls = <<>>
    /\ rediscovery = NotDiscovered
    /\ discover_calls = <<>>
    /\ LocalsUnbound
    /\ now = 450
    /\ candidate = NoCandidate
    /\ liveness = Pending
    /\ api_pages = <<>>
    /\ primary = NotCalled
    /\ ui_page = NoPage
    /\ discovery = NotDiscovered
    /\ LedgerIdle
    /\ CandlesIdle
    /\ PagingIdle
    /\ FeedIdle
    /\ QueueIdle

parseFrame ==
    <<candidate, now, liveness, api_pages, primary, ui_page, discovery,
      botVars, sessionVars, iteration, rediscovery, discover_calls, indicators,
      decision_result, ledgerVars, auxVars>>

\* main.py:287  price_to_beat, seconds_left = self.ui.parse_market_info()
ParseMarketInfo ==
    /\ pc = "cycle"
    /\ \E info \in {parse_market_info(market_page)} :
          IF info = NoInfo
          THEN /\ calls' = Append(calls, Call("parse_market_info", "fail"))
               /\ pc' = "manual"
               /\ UNCHANGED <<price_to_beat, seconds_left>>
          ELSE /\ calls' = Append(calls, Call("parse_market_info", "pass"))
               /\ price_to_beat' = info.price_to_beat.v
               /\ seconds_left' = info.seconds_left.v
               /\ pc' = "market_info"
    /\ UNCHANGED <<current_price, parseFrame>>

\* main.py:290-291  the fallback: ask_manual_market_info()
AskManual ==
    /\ pc = "manual"
    /\ \E to_beat \in ManualPrices, secs \in ManualSeconds :
          /\ price_to_beat' = to_beat
          /\ seconds_left' = secs
    /\ calls' = Append(calls, Call("ask_manual_market_info", "pass"))
    /\ pc' = "market_info"
    /\ UNCHANGED <<current_price, parseFrame>>

\* main.py:294-321  the feed's price and the cross-validation against
\* price_to_beat; the cycle goes on to the time window or is aborted
CrossValidate ==
    /\ pc = "market_info"
    /\ \E price \in FeedPrices :
          LET valid == cross_validation(price, price_to_beat)
          IN  /\ current_price' = price
              /\ calls' = calls \o <<Call("get_latest_price", "pass"),
                                     Call("cross_validation", PassFail(valid))>>
              /\ pc' = trading_cycle_flow("cross_validation", valid)
    /\ UNCHANGED <<price_to_beat, seconds_left, parseFrame>>

NextParse ==
    \/ ParseMarketInfo
    \/ AskManual
    \/ CrossValidate

SpecParse == InitParse /\ [][NextParse]_vars

----------------------------------------------------------------------------
(* Properties of the price-to-beat sanity check *)

\* the price the parser picks from the page shown
ReadFromPage == first_price(market_page.matches)

\* the page shows a price to beat that does not exceed the BTC floor
SmallPriceShown == ReadFromPage # None /\ ReadFromPage.v <= BtcFloor

\* C35: for a BTC market, a price-to-beat read from the page that does not
\* exceed 10000 is rejected by the parser, the cycle falls back to manual
\* entry, and such a parsed value is never used as price_to_beat in a cycle.
SmallPriceRejected ==
    (SmallPriceShown /\ calls # <<>>)
        => /\ calls[1] = Call("parse_market_info", "fail")
           /\ pc = "manual" \/ (Len(calls) >= 2
                                /\ calls[2] = Call("ask_manual_market_info", "pass"))
           /\ pc # "manual" => price_to_beat \in ManualPrices

\* the check does reject such a price when the asset is passed
SmallPriceRejectedGivenAsset ==
    \A matches \in SeqsUpTo(PageNumbers, MaxMatches) :
        LET r == find_price_to_beat(matches, "btc")
        IN  r # None => r.v > BtcFloor

\* a failed parse is always followed by the manual entry
ManualAfterFailedParse ==
    (calls # <<>> /\ calls[1] = Call("parse_market_info", "fail"))
        => pc = "manual" \/ (Len(calls) >= 2
                             /\ calls[2] = Call("ask_manual_market_info", "pass"))

\* a parsed price below the floor reaches the decision stage of the cycle
SmallPriceUsed ==
    /\ SmallPriceShown
    /\ calls # <<>>
    /\ calls[1] = Call("parse_market_info", "pass")
    /\ price_to_beat = ReadFromPage.v
    /\ pc = trading_cycle_flow("cross_validation", TRUE)

----------------------------------------------------------------------------
(* The feed's messages and its queue *)

\* messages passed to _handle_message in a run
MaxMessages == 3

\* rtds.py:124  the topic subscribed to, and RTDSClient.symbol (rtds.py:24)
Topic == "crypto_prices_chainlink"
Subscribed == "btc/usd"

\* str.lower() on the symbols that occur
lower(sym) == IF sym = "BTC/USD" THEN "btc/usd" ELSE sym

\* JSON values of a message field: a number, a string holding the numeral
\* of a number, a string holding an ISO instant, another string, null
JsonNumber(n) == [kind |-> "number", v |-> n]
JsonNumeral(n) == [kind |-> "numeral", v |-> n]
JsonInstant(t) == [kind |-> "instant", v |-> t]
JsonText == [kind |-> "text", v |-> 0]
JsonNull == [kind |-> "null", v |-> 0]

\* a call that raises ValueError or TypeError
Raises == [kind |-> "raise", v |-> 0]

\* float(x): ValueError for a string that is no numeral, TypeError for None
float(x) ==
    IF x.kind \in {"number", "numeral"} THEN Float(x.v) ELSE Raises

\* datetime.fromisoformat(s.replace('Z', '+00:00')): ValueError for a string
\* that is no ISO instant
fromisoformat(x) ==
    IF x.kind = "instant" THEN Float(x.v) ELSE Raises

\* a dictionary restricted to some of its keys
Restrict(d, keys) == [k \in keys |-> d[k]]

\* a message without a 'data' member: data.get('data', {})
EmptyDict == [k \in {} |-> JsonNull]

\* RTDSClient._handle_message(data), rtds.py:107-146, at time `clock`:
\* the tick put on the queue, None when nothing is put
_handle_message(data, clock) ==
    IF data.topic = Topic
    THEN LET payload == data.data
             symbol == lower(DictGet(payload, "symbol", ""))
         IN  IF symbol = Subscribed
             THEN LET price == float(DictGet(payload, "price", JsonNumber(0)))
                      timestamp_str == DictGet(payload, "timestamp", JsonNull)
                      timestamp == IF timestamp_str # JsonNull
                                   THEN fromisoformat(timestamp_str)
                                   ELSE Float(clock)
                  IN  IF price = Raises \/ timestamp = Raises
                      THEN None
                      ELSE [price |-> price.v, timestamp |-> timestamp.v,
                            symbol |-> symbol]
             ELSE None
    ELSE None

\* queue.Queue.put(tick); nothing is put when the handler made no tick
put(q, tick) == IF tick = None THEN q ELSE Append(q, tick)

get_nowait_newest(q) == [item |-> q[Len(q)], rest |-> SubSeq(q, 1, Len(q) - 1)]

\* queue.Queue.get_nowait() on a queue that is not empty: the oldest item
\* is removed and returned
get_nowait(q) == [item |-> Head(q), rest |-> Tail(q)]

\* SpecHandle: what the server may send
Symbols == {"btc/usd", "BTC/USD", "eth/usd"}
PriceValues == {JsonNumber(-5), JsonNumber(0), JsonNumber(7), JsonNumeral(7),
                JsonText, JsonNull}
Stamps == {JsonInstant(60), JsonText}
Payloads ==
    {Restrict(d, keys) : d \in [symbol : Symbols, price : PriceValues,
                                timestamp : Stamps],
                         keys \in SUBSET {"symbol", "price", "timestamp"}}
Messages ==
    [topic : {Topic, "comments"}, data : Payloads \cup {EmptyDict}]

\* SpecQueue: price updates of the subscribed symbol, and a message of
\* another topic
QueueMessages ==
    [topic : {Topic},
     data : [symbol : {Subscribed}, price : {JsonNumber(7), JsonNumeral(8)},
             timestamp : {JsonInstant(60), JsonInstant(120)}]]
    \cup [topic : {"comments"}, data : {EmptyDict}]

\* _trading_cycle is entered with the feed connected and subscribed
InitQueue ==
    /\ QueueIdle
    /\ feed_pc = "listening"
    /\ rtds_running = TRUE
    /\ retry_count = 0
    /\ wait_time = 0
    /\ close_requested = FALSE
    /\ failures = 0
    /\ connections = 1
    /\ pc = "cycle"
    /\ running = TRUE
    /\ watch_mode = FALSE
    /\ current_slug = NullSlug
    /\ current_market_url = NullSlug
    /\ current_market_details = NullSlug
    /\ browser = TRUE
    /\ page_url = <<>>
    /\ feed = TRUE
    /\ navigations = <<>>
    /\ iteration = 1
    /\ calls = <<>>
    /\ rediscovery = NotDiscovered
    /\ discover_calls = <<>>
    /\ LocalsUnbound
    /\ now = 450
    /\ candidate = NoCandidate
    /\ liveness = Pending
    /\ api_pages = <<>>
    /\ primary = NotCalled
    /\ ui_page = NoPage
    /\ discovery = NotDiscovered
    /\ LedgerIdle
    /\ CandlesIdle
    /\ PagingIdle
    /\ ParseIdle

queueFrame ==
    <<candidate, now, liveness, api_pages, primary, ui_page, discovery,
      runVars, ledgerVars, paging, feedVars, market_page>>

\* the feed thread, rtds.py:80-87: a message arrives on the open connection
\* and is handled
HandleMessage(data) ==
    /\ feed_pc = "listening"
    /\ rtds_running
    /\ handled < MaxMessages
    /\ handled' = handled + 1
    /\ \E tick \in {_handle_message(data, now)} :
          /\ price_queue' = put(price_queue, tick)
          /\ enqueued' = put(enqueued, tick)
    /\ UNCHANGED <<prices, drain_pc, candleVars, queueFrame>>

\* main.py:463, rtds.py:168  _update_candles calls get_all_prices: prices = []
StartDrain ==
    /\ drain_pc = "idle"
    /\ prices' = <<>>
    /\ drain_pc' = "test"
    /\ UNCHANGED <<price_queue, enqueued, handled, candleVars, queueFrame>>

\* rtds.py:169  while not self.price_queue.empty(); the list is returned
\* when the queue is found empty (rtds.py:174)
DrainTest ==
    /\ drain_pc = "test"
    /\ drain_pc' = IF price_queue # <<>> THEN "get" ELSE "for"
    /\ UNCHANGED <<price_queue, prices, enqueued, handled, candleVars, queueFrame>>

\* rtds.py:170-173  prices.append(self.price_queue.get_nowait()), the loop
\* being left on queue.Empty
DrainGet ==
    /\ drain_pc = "get"
    /\ IF price_queue = <<>>
       THEN /\ drain_pc' = "for"
            /\ UNCHANGED <<price_queue, prices>>
       ELSE /\ \E got \in {get_nowait(price_queue)} :
                  /\ prices' = Append(prices, got.item)
                  /\ price_queue' = got.rest
            /\ drain_pc' = "test"
    /\ UNCHANGED <<enqueued, handled, candleVars, queueFrame>>

\* main.py:465-466  for tick in ticks: self.candles.add_tick(tick['price'],
\* tick['timestamp']); prices holds what the loop has yet to visit
PassTick ==
    /\ drain_pc = "for"
    /\ IF prices = <<>>
       THEN /\ drain_pc' = "idle"
            /\ UNCHANGED <<prices, candleVars>>
       ELSE /\ \E tick \in {Head(prices)} :
                  /\ \E b \in {add_tick(Builder(candles, current_candle),
                                        tick.price, tick.timestamp)} :
                        /\ candles' = b.candles
                        /\ current_candle' = b.current_candle
                  /\ ticks' = Append(ticks, TickOf(tick.price, tick.timestamp))
            /\ prices' = Tail(prices)
            /\ UNCHANGED drain_pc
    /\ UNCHANGED <<price_queue, enqueued, handled, queueFrame>>

NextHandle == \E data \in Messages : HandleMessage(data)

SpecHandle == InitQueue /\ [][NextHandle]_vars

NextQueue ==
    \/ \E data \in QueueMessages : HandleMessage(data)
    \/ StartDrain
    \/ DrainTest
    \/ DrainGet
    \/ PassTick

\* the orchestrator thread goes on running a drain it has begun
SpecQueue ==
    /\ InitQueue
    /\ [][NextQueue]_vars
    /\ WF_vars(DrainTest)
    /\ WF_vars(DrainGet)
    /\ WF_vars(PassTick)

----------------------------------------------------------------------------
(* Properties of the queued ticks *)

\* C34: every tick the feed client enqueues has a positive price and the
\* subscribed symbol: inbound messages with another topic or symbol, or with
\* a missing, zero, negative or non-numeric price, never produce a queued
\* tick.
QueuedTicksPositive ==
    \A i \in DOMAIN enqueued :
        /\ enqueued[i].price > 0
        /\ enqueued[i].symbol = Subscribed

\* the part that holds: every queued tick has the subscribed symbol, and a
\* message of another topic or symbol, or one whose price is a string that
\* is no numeral or is null, produces no tick
QueuedTicksSubscribed ==
    /\ \A i \in DOMAIN enqueued : enqueued[i].symbol = Subscribed
    /\ \A data \in Messages :
          (\/ data.topic # Topic
           \/ lower(DictGet(data.data, "symbol", "")) # Subscribed
           \/ DictGet(data.data, "price", JsonNumber(0)) \in {JsonText, JsonNull})
              => _handle_message(data, now) = None

\* a message without a price has put a tick of price 0 on the queue
ZeroPriceQueued ==
    /\ enqueued # <<>>
    /\ enqueued[1].price = 0
    /\ _handle_message([topic |-> Topic,
                        data |-> [symbol |-> Subscribed]], now) = enqueued[1]

----------------------------------------------------------------------------
(* Properties of the way from the queue to the candle builder *)

\* the arguments add_tick is called with for each tick of a list
TickArgs(list) == [i \in DOMAIN list |-> TickOf(list[i].price, list[i].timestamp)]

\* ticks taken from the queue or still in it, oldest first
Outstanding == prices \o price_queue

\* C31: under any interleaving of the feed thread's put with the
\* orchestrator's non-blocking drain, every tick enqueued is passed to
\* add_tick exactly once and in enqueue order: the calls made so far,
\* followed by the ticks the drain holds and those still queued, are the
\* ticks enqueued, in order, at every moment; a step adds at most one call
\* and never takes one back; and every tick that is enqueued while a drain
\* is in progress or before it has been passed on when the drain ends.
TicksPassedOnceInOrder ==
    /\ [](ticks \o TickArgs(Outstanding) = TickArgs(enqueued))
    /\ [][\/ ticks' = ticks
          \/ /\ Len(ticks) < Len(enqueued)
             /\ ticks' = Append(ticks, TickArgs(enqueued)[Len(ticks) + 1])]_vars
    /\ \A n \in 1..MaxMessages :
          (drain_pc = "test" /\ Len(enqueued) >= n) ~> (Len(ticks) >= n)

\* C31 witness: the put interleaved with a drain. The drain returned with
\* two ticks, the first has been passed on, the second is still held, and a
\* third, put since the queue was found empty, waits in the queue
TicksPassedWitness ==
    /\ drain_pc = "for"
    /\ Len(ticks) = 1
    /\ Len(prices) = 1
    /\ Len(price_queue) = 1
    /\ enqueued[1] # enqueued[2]
    /\ enqueued[2] # enqueued[3]

====
